---- MODULE Spec2Model ----
(***************************************************************************)
(* Firmware upgrade operations of openwisp-firmware-upgrader               *)
(* (openwisp_firmware_upgrader/base/models.py): UpgradeOperation,          *)
(* BatchUpgradeOperation and DeviceFirmware, with the background tasks     *)
(* that execute them.                                                      *)
(*                                                                         *)
(* The database rows are the variables status, log, opDevice, opImage,     *)
(* opBatch (UpgradeOperation), df (DeviceFirmware), conn                   *)
(* (DeviceConnection) and batch (BatchUpgradeOperation).  Every            *)
(* UpgradeOperation is executed by a background task whose position is     *)
(* pc[o] and whose in-memory model instance is mem[o].  upgrade() is split *)
(* where it reads or writes the database around a blocking call: the       *)
(* connection acquisition, the conflict query, the write of the abort, and *)
(* the run of the Upgrader.                                                *)
(***************************************************************************)
EXTENDS Integers, Sequences, FiniteSets, TLC

\* ---------------------------------------------------------------- bounds
NumDevices == 2
MaxOps == 2
MaxRetries == 1
MaxRedeliveries == 1

Devices == 1..NumDevices
OpIds == 1..MaxOps
\* two builds of one category, one image each, all of the same type: the
\* images and builds the requests of users are drawn from
Images == {1, 2}
Builds == {1, 2}
ImageBuild(i) == i

\* the whole catalogue: build 3 is of a second category, which belongs to
\* organization 2; the image of build 4 is of another type, for other boards
AllBuilds == Builds \cup {3, 4}
AllImages == Images \cup {3, 4}
Category(b) == IF b = 3 THEN 2 ELSE 1
\* Category.organization_id (0: None, a shared category)
CategoryOrganization(c) == IF c = 2 THEN 2 ELSE 0
ImageType(i) == IF i = 4 THEN "type2" ELSE "type1"
\* FIRMWARE_IMAGE_MAP[type]["boards"]
boards(i) == IF ImageType(i) = "type1" THEN {"model1", "model2"} ELSE {"model3"}
\* Device.model and Device.organization_id
DeviceModel(d) == IF d % 2 = 1 THEN "model1" ELSE "model2"
DeviceOrganization(d) == d

VARIABLES
    status,      \* UpgradeOperation.status, persisted ("none": no such row)
    log,         \* UpgradeOperation.log, persisted, as its sequence of lines
    opDevice,    \* UpgradeOperation.device (0: no such row)
    opImage,     \* UpgradeOperation.image
    opBatch,     \* UpgradeOperation.batch is set
    pc,          \* position of the task that executes the operation
    mem,         \* the task's in-memory UpgradeOperation instance
    retries,     \* the task's request.retries
    res,         \* what the last execution of upgrade() did (history)
    overlap,     \* operations of the device in progress at creation (history)
    redelivered, \* number of duplicate deliveries so far
    df,          \* DeviceFirmware of every device
    conn,        \* DeviceConnection of every device
    clock,       \* timezone.now()
    batch,       \* the BatchUpgradeOperation and its task; updates counts
                 \* the calls of its update() (history)
    preview,     \* what the last dry_run returned
    up,          \* the run of the Upgrader on the device: its inputs, the
                 \* device's side of it and the steps taken
    cleaned,     \* the upgrade options of an operation that is validated, and
                 \* the message of the ValidationError ("": none)
    dup,         \* a second execution of the task of one operation: the
                 \* locals of the execution that is not taking steps
    images,      \* the FirmwareImage rows that exist
    opOptions    \* UpgradeOperation.upgrade_options

vars == <<status, log, opDevice, opImage, opBatch, pc, mem, retries, res,
          overlap, redelivered, df, conn, clock, batch, preview, up, cleaned,
          dup, images, opOptions>>

STATUS_CHOICES == {"in-progress", "success", "failed", "aborted"}
Terminal == {"success", "failed", "aborted"}

\* what Upgrader.upgrade(image) can do: return, or raise one of the
\* exceptions upgrade() distinguishes, with the text str(e) gives
UpgraderOutcomes ==
    { [kind |-> "ok", cause |-> ""],
      [kind |-> "UpgradeNotNeeded", cause |-> ""],
      [kind |-> "UpgradeAborted", cause |-> ""],
      [kind |-> "RecoverableFailure", cause |-> "Invalid packet blocking"],
      [kind |-> "ReconnectionFailed",
       cause |-> "Giving up, device not reachable anymore after upgrade"],
      [kind |-> "Exception", cause |-> "Invalid image type"] }

ConnectionOutcomes == {"working", "no-objects", "not-working"}

\* a device without DeviceFirmware
NoFirmware == [image |-> 0, installed |-> FALSE]

NoResult == [kind |-> "none", recoverable |-> FALSE, raised |-> FALSE, start |-> 0]

\* ------------------------------------------------------ pure operations

\* UpgradeOperation.log_line, on the log as a sequence of lines: an empty
\* log is replaced by the line, otherwise "\n" and the line are appended
log_line(l, line) ==
    IF l # <<>> THEN Append(l, line)
    ELSE IF line = "" THEN <<>> ELSE <<line>>

\* number of DeviceConnection objects of a device
ConnectionCount(d) == d

\* a loop that logs no connection
MutantLogsNoConnection(l, d, k, reason) == l

RECURSIVE LogConnections(_, _, _, _)
\* the loop over device.deviceconnection_set in upgrade(): one line for
\* each connection k..ConnectionCount(d), with its failure reason
LogConnections(l, d, k, reason) ==
    IF k > ConnectionCount(d) THEN l
    ELSE LogConnections(
            log_line(l, "Failed to connect with device using credentials "
                        \o ToString(k) \o ". Error: " \o reason),
            d, k + 1, reason)

\* a handler that gives up whatever `recoverable` says
MutantHandlerFailsAlways(m, recoverable, cause) ==
    [mem |-> [status |-> "failed",
              log |-> log_line(m.log, "Max retries exceeded. Upgrade failed: "
                                      \o cause \o ".")],
     raised |-> FALSE]

\* a handler that raises the error again whatever `recoverable` says
MutantHandlerRaisesAlways(m, recoverable, cause) ==
    [mem |-> [m EXCEPT !.log =
                log_line(log_line(@, "Detected a recoverable failure: "
                                     \o cause \o ".\n"),
                         "The upgrade operation will be retried soon.")],
     raised |-> TRUE]

\* a handler that leaves the status alone when no retry is left
MutantHandlerKeepsStatus(m, recoverable, cause) ==
    IF recoverable
    THEN [mem |-> [m EXCEPT !.log =
                     log_line(log_line(@, "Detected a recoverable failure: "
                                          \o cause \o ".\n"),
                              "The upgrade operation will be retried soon.")],
          raised |-> TRUE]
    ELSE [mem |-> [m EXCEPT !.log =
                     log_line(@, "Max retries exceeded. Upgrade failed: "
                                 \o cause \o ".")],
          raised |-> FALSE]

\* _recoverable_failure_handler: the instance afterwards, and whether the
\* error is raised again
_recoverable_failure_handler(m, recoverable, cause) ==
    IF recoverable
    THEN [mem |-> [m EXCEPT !.log =
                     log_line(log_line(@, "Detected a recoverable failure: "
                                          \o cause \o ".\n"),
                              "The upgrade operation will be retried soon.")],
          raised |-> TRUE]
    ELSE [mem |-> [status |-> "failed",
                   log |-> log_line(m.log, "Max retries exceeded. Upgrade failed: "
                                           \o cause \o ".")],
          raised |-> FALSE]

\* a conflict query that finds nothing
MutantCountsNothing(o) == 0

\* a conflict query without exclude(pk=self.pk)
MutantCountsItself(o) ==
    Cardinality({p \in OpIds : /\ opDevice[p] = opDevice[o]
                               /\ status[p] = "in-progress"})

\* the conflict query of upgrade(): other operations of the same device
\* that are in progress
qs_count(o) ==
    Cardinality({p \in OpIds : /\ p # o
                               /\ opDevice[p] = opDevice[o]
                               /\ status[p] = "in-progress"})

\* the operations of the batch (upgradeoperation_set)
Children == {o \in OpIds : opBatch[o]}

\* an update() that takes aborted for failed
MutantAbortedCountsAsFailed(st) ==
    IF \E o \in Children : st[o] = "in-progress" THEN batch.status
    ELSE IF \E o \in Children : st[o] \in {"failed", "aborted"} THEN "failed"
    ELSE "success"

\* an update() that does not look for operations in progress
MutantUpdateIgnoresInProgress(st) ==
    IF \E o \in Children : st[o] = "failed" THEN "failed" ELSE "success"

\* BatchUpgradeOperation.update(), given the operations' statuses st: the
\* status of the batch afterwards
update(st) ==
    IF \E o \in Children : st[o] = "in-progress" THEN batch.status
    ELSE IF \E o \in Children : st[o] = "failed" THEN "failed"
    ELSE "success"

\* a save that calls update() whatever the status of the operation is
MutantSaveIgnoresStatus(o, m) ==
    /\ status' = [status EXCEPT ![o] = m.status]
    /\ log' = [log EXCEPT ![o] = m.log]
    /\ batch' = IF opBatch[o]
                THEN [batch EXCEPT !.status = update([status EXCEPT ![o] = m.status]),
                                   !.updates = @ + 1]
                ELSE batch

\* UpgradeOperation.save(): the row is written from the instance, and a
\* completed operation of a batch triggers the batch's update()
save(o, m) ==
    /\ status' = [status EXCEPT ![o] = m.status]
    /\ log' = [log EXCEPT ![o] = m.log]
    /\ batch' = IF opBatch[o] /\ m.status # "in-progress"
                THEN [batch EXCEPT !.status = update([status EXCEPT ![o] = m.status]),
                                   !.updates = @ + 1]
                ELSE batch

\* an else clause that does not set the status
MutantReturnKeepsStatus(kind) ==
    CASE kind = "ok" -> "in-progress"
      [] kind = "UpgradeNotNeeded" -> "success"
      [] kind = "UpgradeAborted" -> "aborted"
      [] OTHER -> "failed"

\* UpgradeAborted handled like any other exception
MutantAbortedIsFailed(kind) ==
    CASE kind \in {"ok", "UpgradeNotNeeded"} -> "success"
      [] OTHER -> "failed"

\* any other exception handled like UpgradeAborted
MutantExceptionIsAborted(kind) ==
    CASE kind \in {"ok", "UpgradeNotNeeded"} -> "success"
      [] kind \in {"UpgradeAborted", "Exception"} -> "aborted"
      [] OTHER -> "failed"

\* UpgradeNotNeeded handled like UpgradeAborted
MutantNotNeededIsAborted(kind) ==
    CASE kind = "ok" -> "success"
      [] kind \in {"UpgradeNotNeeded", "UpgradeAborted"} -> "aborted"
      [] OTHER -> "failed"

\* the status upgrade() gives the operation for an outcome of the Upgrader
\* that is no recoverable failure
OutcomeStatus(kind) ==
    CASE kind \in {"ok", "UpgradeNotNeeded"} -> "success"
      [] kind = "UpgradeAborted" -> "aborted"
      [] OTHER -> "failed"

\* installed = True in the whole last except clause
MutantInstalledOnAnyError(kind) ==
    kind \in {"ok", "UpgradeNotNeeded", "ReconnectionFailed", "Exception"}

\* installed = True only in the else clause
MutantNotInstalledOnError(kind) == kind \in {"ok"}

\* installed = True in the except clauses only, not in the else clause
MutantNotInstalledOnReturn(kind) ==
    kind \in {"UpgradeNotNeeded", "ReconnectionFailed"}

\* installed = True in the except clause of UpgradeAborted too
MutantInstalledOnAbort(kind) ==
    kind \in {"ok", "UpgradeNotNeeded", "ReconnectionFailed", "UpgradeAborted"}

\* the local `installed` of upgrade() for an outcome of the Upgrader
installed(kind) == kind \in {"ok", "UpgradeNotNeeded", "ReconnectionFailed"}

\* the connection is not updated
MutantConnectionUntouched(c, cause, now) == c

\* DeviceConnection after the ReconnectionFailed branch of upgrade()
ReconnectionFailedConnection(c, cause, now) ==
    [is_working |-> FALSE, failure_reason |-> cause, last_attempt |-> now]

\* a missing connection handled as an abort
MutantNoConnectionAborts(m) ==
    [status |-> "aborted", log |-> log_line(m.log, "No device connection available")]

\* a missing connection handled as a failure
MutantNoConnectionFails(m) ==
    [status |-> "failed", log |-> log_line(m.log, "No device connection available")]

\* upgrade() when the provider reports no connection object at all: the
\* instance after the log line
no_connection_available(m) ==
    [m EXCEPT !.log = log_line(@, "No device connection available")]

\* DeviceConnection after get_working_connection: the provider flags the
\* connection it tried as working or not
get_working_connection(c, outcome) ==
    CASE outcome = "working" ->
            [c EXCEPT !.is_working = TRUE, !.failure_reason = ""]
      [] outcome = "not-working" ->
            [c EXCEPT !.is_working = FALSE, !.failure_reason = "Connection failed"]
      [] OTHER -> c

\* the flags of the schema of the OpenWrt upgrader, and a key it does not have
SCHEMA == {"c", "o", "n", "u", "p", "k", "F"}
Keys == SCHEMA \cup {"invalid"}

\* the upgrade options: every key is not set, true or false
OptionSets == [Keys -> {"unset", "True", "False"}]
EmptyOptions == [k \in Keys |-> "unset"]
NoOptions == [upgrade_options |-> EmptyOptions, error |-> "not validated"]

InvalidOptions == "The upgrade options are invalid"
Together(a, b) ==
    "The \"-" \o a \o "\" and \"-" \o b \o "\" options cannot be used together"

\* OpenWrt.validate_upgrade_options: the options are validated against the
\* schema, which allows no other key, then the flags that exclude each other
\* are looked for; the result is the exception raised ("": none)
OpenWrt_validate_upgrade_options(options) ==
    IF \E k \in Keys \ SCHEMA : options[k] # "unset"
    THEN "jsonschema.ValidationError"
    ELSE IF options["n"] = "True" /\ options["c"] = "True"
    THEN Together("n", "c")
    ELSE IF options["n"] = "True" /\ options["o"] = "True"
    THEN Together("n", "o")
    ELSE ""

\* a validation that reports every exception of the upgrader alike
MutantNamesNoPair(options) ==
    IF options = EmptyOptions \/ OpenWrt_validate_upgrade_options(options) = ""
    THEN ""
    ELSE InvalidOptions

\* UpgradeOptionsMixin.validate_upgrade_options: the message of the
\* ValidationError raised ("": none)
validate_upgrade_options(options) ==
    IF options = EmptyOptions
    THEN ""
    ELSE IF SCHEMA = {}
    THEN "Using upgrade options is not allowed with this upgrader."
    ELSE IF OpenWrt_validate_upgrade_options(options) = "jsonschema.ValidationError"
    THEN InvalidOptions
    ELSE OpenWrt_validate_upgrade_options(options)

\* OpenWrt.RECONNECT_MAX_RETRIES
RECONNECT_MAX_RETRIES == 10

\* OpenWrt._UNNECESSARY_SERVICES, in the order they are stopped, and the wifi
_UNNECESSARY_SERVICES == <<"uhttpd", "cron", "log", "wifi">>

\* the checksum of the file of an image
Checksum(image) == image

\* what DeviceConnection.get_addresses gives, before and after the device
\* got another management address
Addresses == <<"127.0.0.1", "192.168.99.254, 127.0.0.1">>

\* no run of the Upgrader yet, on a device with the given checksum marker
\* (0: no checksum file)
NoRunWith(marker) ==
    [pc |-> "none", op |-> 0, marker |-> marker, stopped |-> <<>>,
     calls |-> <<>>, memory |-> "", i |-> 0, attempt |-> 0,
     outcome |-> [kind |-> "none", cause |-> ""]]
NoRun == NoRunWith(0)

RECURSIVE log_lines(_, _)
\* several calls of log_line
log_lines(l, lines) ==
    IF lines = <<>> THEN l
    ELSE log_lines(log_line(l, Head(lines)), Tail(lines))

\* the id of the next UpgradeOperation row (0: the bound is reached)
NextOp ==
    IF \E o \in OpIds : opDevice[o] = 0
    THEN CHOOSE o \in OpIds : opDevice[o] = 0 /\ \A p \in OpIds : p < o => opDevice[p] # 0
    ELSE 0

\* ------------------------------------------------------------- initial

\* DeviceFirmware.clean: whether the DeviceFirmware of the device and the
\* image passes validation
clean(d, image) ==
    /\ \/ CategoryOrganization(Category(ImageBuild(image))) = 0
       \/ CategoryOrganization(Category(ImageBuild(image))) = DeviceOrganization(d)
    /\ ConnectionCount(d) >= 1
    /\ DeviceModel(d) \in boards(image)

\* no second execution of a task
NoDup == [op |-> 0, pc |-> "none", mem |-> [status |-> "none", log |-> <<>>],
          res |-> NoResult, retries |-> 0]

\* no dry run was made yet
NoPreview == [build |-> 0, device_firmwares |-> {}, devices |-> {}]

\* no operation, no batch and no dry run exist yet
NothingRequested ==
    /\ status = [o \in OpIds |-> "none"]
    /\ log = [o \in OpIds |-> <<>>]
    /\ opDevice = [o \in OpIds |-> 0]
    /\ opImage = [o \in OpIds |-> 0]
    /\ opBatch = [o \in OpIds |-> FALSE]
    /\ pc = [o \in OpIds |-> "none"]
    /\ mem = [o \in OpIds |-> [status |-> "none", log |-> <<>>]]
    /\ retries = [o \in OpIds |-> 0]
    /\ res = [o \in OpIds |-> NoResult]
    /\ overlap = [o \in OpIds |-> {}]
    /\ redelivered = 0
    /\ conn = [d \in Devices |->
                 [is_working |-> TRUE, failure_reason |-> "", last_attempt |-> 0]]
    /\ clock = 1
    /\ batch = [status |-> "none", build |-> 0, pc |-> "none", todo |-> {},
                updates |-> 0, firmwareless |-> FALSE,
                upgrade_options |-> EmptyOptions]
    /\ preview = NoPreview
    /\ dup = NoDup
    /\ images = AllImages
    /\ opOptions = [o \in OpIds |-> EmptyOptions]

\* device 1 has its firmware registered as installed, the others have no
\* DeviceFirmware
Init ==
    /\ NothingRequested
    /\ up = NoRun
    /\ cleaned = NoOptions
    /\ df = [d \in Devices |-> IF d = 1 THEN [image |-> 1, installed |-> TRUE]
                                 ELSE NoFirmware]

\* every device has no DeviceFirmware or any valid one
InitDevices ==
    /\ NothingRequested
    /\ up = NoRun
    /\ cleaned = NoOptions
    /\ df \in {f \in [Devices -> {NoFirmware} \cup
                                   [image : AllImages, installed : BOOLEAN]] :
                 \A d \in Devices : f[d] # NoFirmware => clean(d, f[d].image)}

\* ------------------------------------------------------------- actions

\* the task upgrade_firmware calls upgrade(recoverable) with recoverable
\* true while retries are left
recoverable_arg(o) == retries[o] < MaxRetries

\* the task facility retries a task that raised RecoverableFailure
retry(o) ==
    /\ pc' = [pc EXCEPT ![o] = "queued"]
    /\ retries' = [retries EXCEPT ![o] = @ + 1]

\* upgrade() returns and the task is over
return(o) ==
    /\ pc' = [pc EXCEPT ![o] = "done"]
    /\ UNCHANGED retries

\* an operation created without the upgrade options it was given
MutantDropsOptions(o, d, image, inBatch, upgrade_options) ==
    /\ opOptions' = [opOptions EXCEPT ![o] = EmptyOptions]
    /\ status' = [status EXCEPT ![o] = "in-progress"]
    /\ log' = [log EXCEPT ![o] = <<>>]
    /\ opDevice' = [opDevice EXCEPT ![o] = d]
    /\ opImage' = [opImage EXCEPT ![o] = image]
    /\ opBatch' = [opBatch EXCEPT ![o] = inBatch]
    /\ pc' = [pc EXCEPT ![o] = "queued"]
    /\ overlap' = [overlap EXCEPT ![o] =
                     {p \in OpIds : opDevice[p] = d /\ status[p] = "in-progress"}]

\* DeviceFirmware.create_upgrade_operation: a new row, in progress, and its
\* task submitted
create_upgrade_operation(o, d, image, inBatch, upgrade_options) ==
    /\ opOptions' = [opOptions EXCEPT ![o] = upgrade_options]
    /\ status' = [status EXCEPT ![o] = "in-progress"]
    /\ log' = [log EXCEPT ![o] = <<>>]
    /\ opDevice' = [opDevice EXCEPT ![o] = d]
    /\ opImage' = [opImage EXCEPT ![o] = image]
    /\ opBatch' = [opBatch EXCEPT ![o] = inBatch]
    /\ pc' = [pc EXCEPT ![o] = "queued"]
    /\ overlap' = [overlap EXCEPT ![o] =
                     {p \in OpIds : opDevice[p] = d /\ status[p] = "in-progress"}]

\* an image that never counts as changed
MutantImageNeverChanged(old, new) == FALSE

\* DeviceFirmware.image_has_changed: the binding is new, or the image is
\* not the one the instance was loaded with
image_has_changed(old, new) == old = 0 \/ new # old

\* DeviceFirmware.save(upgrade=upgrade) of the instance dfw of device d,
\* outside a batch: an upgrade is launched when the image changed or is not
\* installed, otherwise the row is written as it is
DeviceFirmware_save(d, dfw, upgrade) ==
    IF upgrade /\ (image_has_changed(df[d].image, dfw.image) \/ ~dfw.installed)
    THEN /\ NextOp # 0
         /\ df' = [df EXCEPT ![d] = [image |-> dfw.image, installed |-> FALSE]]
         /\ create_upgrade_operation(NextOp, d, dfw.image, FALSE, EmptyOptions)
         /\ UNCHANGED <<mem, retries, res, redelivered, preview, up, cleaned, dup, images, conn, clock, batch>>
    ELSE /\ df' = [df EXCEPT ![d] = dfw]
         /\ UNCHANGED <<status, log, opDevice, opImage, opBatch, pc, mem, retries,
                        res, overlap, redelivered, preview, up, cleaned, dup, images, opOptions, conn, clock, batch>>

\* the DeviceFirmware of device d is bound to image and saved (admin, API):
\* save() with its default upgrade=True
set_image(d, image) ==
    /\ image \in images
    /\ DeviceFirmware_save(d, [image |-> image, installed |-> df[d].installed], TRUE)

\* DeviceFirmware.create_for_device: a device without DeviceFirmware gets
\* one that is installed, saved with upgrade=False
create_for_device(d, image) ==
    /\ image \in images
    /\ df[d] = NoFirmware
    /\ DeviceFirmware_save(d, [image |-> image, installed |-> TRUE], FALSE)

\* the task upgrade_firmware loads the operation and calls upgrade(), which
\* asks for a working connection of the device
upgrade_connect(o, c) ==
    LET d == opDevice[o]
        recoverable == recoverable_arg(o)
        m0 == [status |-> status[o], log |-> log[o]]
        newconn == get_working_connection(conn[d], c)
        started == [kind |-> c, recoverable |-> recoverable, raised |-> FALSE,
                    start |-> clock]
    IN
    /\ pc[o] = "queued"
    /\ clock' = clock + 1
    /\ conn' = [conn EXCEPT ![d] = newconn]
    /\ UNCHANGED <<opDevice, opImage, opBatch, overlap, redelivered, preview, up, cleaned, dup, images, opOptions, df>>
    /\ CASE c = "working" ->
              /\ pc' = [pc EXCEPT ![o] = "check"]
              /\ mem' = [mem EXCEPT ![o] = m0]
              /\ res' = [res EXCEPT ![o] = started]
              /\ UNCHANGED <<status, log, batch, retries>>
         [] c = "no-objects" ->
              LET m1 == no_connection_available(m0)
              IN /\ save(o, m1)
                 /\ mem' = [mem EXCEPT ![o] = m1]
                 /\ res' = [res EXCEPT ![o] = started]
                 /\ return(o)
         [] c = "not-working" ->
              LET m1 == [m0 EXCEPT !.log = LogConnections(@, d, 1, newconn.failure_reason)]
                  h == _recoverable_failure_handler(m1, recoverable,
                         "Failed to establish connection with the device, tried all DeviceConnections")
              IN /\ save(o, h.mem)
                 /\ mem' = [mem EXCEPT ![o] = h.mem]
                 /\ res' = [res EXCEPT ![o] = [started EXCEPT !.raised = h.raised]]
                 /\ IF h.raised THEN retry(o) ELSE return(o)

\* upgrade(): the query for other operations of the device in progress, and
\* the lookup of the upgrader class for the connection
upgrade_check(o, supported) ==
    /\ pc[o] = "check"
    /\ IF qs_count(o) > 0
       THEN /\ pc' = [pc EXCEPT ![o] = "abort"]
            /\ UNCHANGED res
       ELSE IF supported
       THEN /\ pc' = [pc EXCEPT ![o] = "upgrader"]
            /\ UNCHANGED res
       ELSE /\ pc' = [pc EXCEPT ![o] = "done"]
            /\ res' = [res EXCEPT ![o].kind = "no-upgrader"]
    /\ UNCHANGED <<status, log, opDevice, opImage, opBatch, mem, retries,
                   overlap, redelivered, preview, up, cleaned, dup, images, opOptions, df, conn, clock, batch>>

\* upgrade(): another operation is in progress, this one is aborted
upgrade_abort(o) ==
    LET m1 == [status |-> "aborted",
               log |-> log_line(mem[o].log,
                         "Another upgrade operation is in progress, aborting...")]
    IN
    /\ pc[o] = "abort"
    /\ save(o, m1)
    /\ mem' = [mem EXCEPT ![o] = m1]
    /\ return(o)
    /\ res' = [res EXCEPT ![o].kind = "conflict"]
    /\ UNCHANGED <<opDevice, opImage, opBatch, overlap, redelivered, preview, up, cleaned, dup, images, opOptions,
                   df, conn, clock>>

\* the connection is updated in the UpgradeAborted clause as well
MutantAbortFlagsConnection(o, out) ==
    LET d == opDevice[o]
        kind == out.kind
    IN
    /\ pc[o] = "upgrader"
    /\ UNCHANGED <<opDevice, opImage, opBatch, overlap, redelivered, preview, cleaned, dup, images, opOptions>>
    /\ IF kind = "RecoverableFailure"
       THEN LET h == _recoverable_failure_handler(mem[o], res[o].recoverable, out.cause)
            IN /\ save(o, h.mem)
               /\ mem' = [mem EXCEPT ![o] = h.mem]
               /\ res' = [res EXCEPT ![o].kind = kind, ![o].raised = h.raised]
               /\ IF h.raised THEN retry(o) ELSE return(o)
               /\ UNCHANGED <<df, conn, clock>>
       ELSE LET logged == IF kind \in {"ReconnectionFailed", "Exception"}
                          THEN log_line(mem[o].log, out.cause)
                          ELSE mem[o].log
                m1 == [status |-> OutcomeStatus(kind), log |-> logged]
            IN /\ save(o, m1)
               /\ mem' = [mem EXCEPT ![o] = m1]
               /\ res' = [res EXCEPT ![o].kind = kind]
               /\ return(o)
               /\ IF kind \in {"ReconnectionFailed", "UpgradeAborted"}
                  THEN conn' = [conn EXCEPT ![d] =
                                  ReconnectionFailedConnection(@, out.cause, clock)]
                  ELSE UNCHANGED conn
               /\ UNCHANGED clock
               /\ df' = IF installed(kind) /\ df[d] # NoFirmware
                        THEN [df EXCEPT ![d].installed = TRUE]
                        ELSE df

\* the DeviceFirmware is marked installed in the RecoverableFailure clause
MutantRecoverableInstalls(o, out) ==
    LET d == opDevice[o]
        kind == out.kind
    IN
    /\ pc[o] = "upgrader"
    /\ UNCHANGED <<opDevice, opImage, opBatch, overlap, redelivered, preview, cleaned, dup, images, opOptions>>
    /\ IF kind = "RecoverableFailure"
       THEN LET h == _recoverable_failure_handler(mem[o], res[o].recoverable, out.cause)
            IN /\ save(o, h.mem)
               /\ mem' = [mem EXCEPT ![o] = h.mem]
               /\ res' = [res EXCEPT ![o].kind = kind, ![o].raised = h.raised]
               /\ IF h.raised THEN retry(o) ELSE return(o)
               /\ df' = [df EXCEPT ![d].installed = TRUE]
               /\ UNCHANGED <<conn, clock>>
       ELSE LET logged == IF kind \in {"ReconnectionFailed", "Exception"}
                          THEN log_line(mem[o].log, out.cause)
                          ELSE mem[o].log
                m1 == [status |-> OutcomeStatus(kind), log |-> logged]
            IN /\ save(o, m1)
               /\ mem' = [mem EXCEPT ![o] = m1]
               /\ res' = [res EXCEPT ![o].kind = kind]
               /\ return(o)
               /\ IF kind = "ReconnectionFailed"
                  THEN conn' = [conn EXCEPT ![d] =
                                  ReconnectionFailedConnection(@, out.cause, clock)]
                  ELSE UNCHANGED conn
               /\ UNCHANGED clock
               /\ df' = IF installed(kind) /\ df[d] # NoFirmware
                        THEN [df EXCEPT ![d].installed = TRUE]
                        ELSE df

\* upgrade(): the try/except/else around upgrader.upgrade(image), which
\* ended with outcome out, the save and the DeviceFirmware update
upgrade_except(o, out) ==
    LET d == opDevice[o]
        kind == out.kind
    IN
    /\ pc[o] = "upgrader"
    /\ UNCHANGED <<opDevice, opImage, opBatch, overlap, redelivered, preview, cleaned, dup, images, opOptions>>
    /\ IF kind = "RecoverableFailure"
       THEN LET h == _recoverable_failure_handler(mem[o], res[o].recoverable, out.cause)
            IN /\ save(o, h.mem)
               /\ mem' = [mem EXCEPT ![o] = h.mem]
               /\ res' = [res EXCEPT ![o].kind = kind, ![o].raised = h.raised]
               /\ IF h.raised THEN retry(o) ELSE return(o)
               /\ UNCHANGED <<df, conn, clock>>
       ELSE LET logged == IF kind \in {"ReconnectionFailed", "Exception"}
                          THEN log_line(mem[o].log, out.cause)
                          ELSE mem[o].log
                m1 == [status |-> OutcomeStatus(kind), log |-> logged]
            IN /\ save(o, m1)
               /\ mem' = [mem EXCEPT ![o] = m1]
               /\ res' = [res EXCEPT ![o].kind = kind]
               /\ return(o)
               /\ IF kind = "ReconnectionFailed"
                  THEN conn' = [conn EXCEPT ![d] =
                                  ReconnectionFailedConnection(@, out.cause, clock)]
                  ELSE UNCHANGED conn
               /\ UNCHANGED clock
               /\ df' = IF installed(kind) /\ df[d] # NoFirmware
                        THEN [df EXCEPT ![d].installed = TRUE]
                        ELSE df

\* upgrade(): upgrader.upgrade(image) ends with any of its outcomes
upgrade_run(o, out) ==
    /\ upgrade_except(o, out)
    /\ UNCHANGED up

\* at-least-once delivery: the task of a finished execution is delivered
\* once more
redeliver(o) ==
    /\ pc[o] = "done"
    /\ redelivered < MaxRedeliveries
    /\ pc' = [pc EXCEPT ![o] = "queued"]
    /\ redelivered' = redelivered + 1
    /\ UNCHANGED <<preview, up, cleaned, dup, images, opOptions>>
    /\ UNCHANGED <<status, log, opDevice, opImage, opBatch, mem, retries, res,
                   overlap, df, conn, clock, batch>>

\* a deletion that cascades to the operations that target the image
MutantDeleteCascades(i) ==
    /\ i \in images
    /\ images' = images \ {i}
    /\ df' = [d \in Devices |-> IF df[d].image = i THEN NoFirmware ELSE df[d]]
    /\ opImage' = [o \in OpIds |-> IF opImage[o] = i THEN 0 ELSE opImage[o]]
    /\ status' = [o \in OpIds |-> IF opImage[o] = i THEN "none" ELSE status[o]]
    /\ log' = [o \in OpIds |-> IF opImage[o] = i THEN <<>> ELSE log[o]]
    /\ UNCHANGED <<opDevice, opBatch, pc, mem, retries, res,
                   overlap, redelivered, conn, clock, batch, preview, up,
                   cleaned, dup, opOptions>>

\* FirmwareImage.delete: the row is deleted, and with it the DeviceFirmware
\* rows bound to it (CASCADE); the operations that target it are kept with
\* image null (SET_NULL); the file is removed from the storage
delete_image(i) ==
    /\ i \in images
    /\ images' = images \ {i}
    /\ df' = [d \in Devices |-> IF df[d].image = i THEN NoFirmware ELSE df[d]]
    /\ opImage' = [o \in OpIds |-> IF opImage[o] = i THEN 0 ELSE opImage[o]]
    /\ UNCHANGED <<status, log, opDevice, opBatch, pc, mem, retries, res,
                   overlap, redelivered, conn, clock, batch, preview, up,
                   cleaned, dup, opOptions>>

\* at-least-once delivery: the task of an operation is delivered again
\* while its first execution is inside upgrade(); the new execution takes
\* the steps from here on, the locals of the first one are kept aside
duplicate(o) ==
    /\ pc[o] \in {"check", "abort", "upgrader"}
    /\ dup.op = 0
    /\ redelivered < MaxRedeliveries
    /\ redelivered' = redelivered + 1
    /\ dup' = [op |-> o, pc |-> pc[o], mem |-> mem[o], res |-> res[o],
               retries |-> retries[o]]
    /\ pc' = [pc EXCEPT ![o] = "queued"]
    /\ UNCHANGED <<status, log, opDevice, opImage, opBatch, mem, retries, res,
                   overlap, df, conn, clock, batch, preview, up, cleaned,
                   images, opOptions>>

\* the two executions of the task of the operation run in parallel: the
\* other one takes the steps from here on
switch(o) ==
    /\ dup.op = o
    /\ dup.pc # "done"
    /\ dup' = [op |-> o, pc |-> pc[o], mem |-> mem[o], res |-> res[o],
               retries |-> retries[o]]
    /\ pc' = [pc EXCEPT ![o] = dup.pc]
    /\ mem' = [mem EXCEPT ![o] = dup.mem]
    /\ res' = [res EXCEPT ![o] = dup.res]
    /\ retries' = [retries EXCEPT ![o] = dup.retries]
    /\ UNCHANGED <<status, log, opDevice, opImage, opBatch, overlap,
                   redelivered, df, conn, clock, batch, preview, up, cleaned,
                   images, opOptions>>

\* ------------------------------------------------------------- batch

\* Build.batch_upgrade: the batch is validated (full_clean) with its upgrade
\* options, created idle and its task submitted
batch_upgrade(b, firmwareless, upgrade_options) ==
    /\ batch.status = "none"
    /\ validate_upgrade_options(upgrade_options) = ""
    /\ batch' = [status |-> "idle", build |-> b, pc |-> "queued", todo |-> {},
                 updates |-> 0, firmwareless |-> firmwareless,
                 upgrade_options |-> upgrade_options]
    /\ UNCHANGED <<status, log, opDevice, opImage, opBatch, pc, mem, retries,
                   res, overlap, redelivered, preview, up, cleaned, dup, images, opOptions, df, conn, clock>>

\* a query that leaves out every device on an image of the build
MutantExcludesBuildImages(b) ==
    {d \in Devices : /\ df[d] # NoFirmware
                      /\ Category(ImageBuild(df[d].image)) = Category(b)
                      /\ ImageBuild(df[d].image) # b}

\* Build._find_related_device_firmwares: the devices whose DeviceFirmware is
\* of the build's category, except those with an installed image of the build
_find_related_device_firmwares(b) ==
    {d \in Devices : /\ df[d] # NoFirmware
                      /\ Category(ImageBuild(df[d].image)) = Category(b)
                      /\ ~(ImageBuild(df[d].image) = b /\ df[d].installed)}

\* Build.firmwareimage_set
firmwareimage_set(b) == {i \in images : ImageBuild(i) = b}

\* a query that looks at neither the boards nor the organization
MutantAnyFirmwareless(b, bs) == {d \in Devices : df[d] = NoFirmware}

\* Build._find_firmwareless_devices: the devices without DeviceFirmware whose
\* model is one of the boards and, when the category of the build belongs to
\* an organization, whose organization is that one
_find_firmwareless_devices(b, bs) ==
    {d \in Devices :
        /\ df[d] = NoFirmware
        /\ DeviceModel(d) \in bs
        /\ CategoryOrganization(Category(b)) # 0
              => DeviceOrganization(d) = CategoryOrganization(Category(b))}

\* BatchUpgradeOperation.upgrade: the batch is in progress and the related
\* device firmwares are queried
BatchUpgradeOperation_upgrade ==
    /\ batch.pc = "queued"
    /\ batch' = [batch EXCEPT !.status = "in-progress", !.pc = "related",
                              !.todo = _find_related_device_firmwares(batch.build)]
    /\ UNCHANGED <<status, log, opDevice, opImage, opBatch, pc, mem, retries,
                   res, overlap, redelivered, preview, up, cleaned, dup, images, opOptions, df, conn, clock>>

\* the image of the build with the given type (.first()), 0 when there is none
BuildImage(b, type) ==
    IF \E i \in firmwareimage_set(b) : ImageType(i) = type
    THEN CHOOSE i \in firmwareimage_set(b) : ImageType(i) = type
    ELSE 0

\* the newest of the devices still to be visited
Newest(S) == CHOOSE x \in S : \A y \in S : y <= x

\* upgrade_related_devices: one turn of the loop, newest device first; the
\* device is skipped when the build has no image of the type of its image
upgrade_related_devices ==
    /\ batch.pc = "related"
    /\ batch.todo # {}
    /\ LET d == Newest(batch.todo)
           image == BuildImage(batch.build, ImageType(df[d].image))
       IN IF image # 0
          THEN /\ NextOp # 0
               /\ df' = [df EXCEPT ![d] = [image |-> image, installed |-> FALSE]]
               /\ create_upgrade_operation(NextOp, d, image, TRUE, batch.upgrade_options)
               /\ batch' = [batch EXCEPT !.todo = @ \ {d}]
          ELSE /\ batch' = [batch EXCEPT !.todo = @ \ {d}]
               /\ UNCHANGED <<status, log, opDevice, opImage, opBatch, pc,
                              overlap, df, opOptions>>
    /\ UNCHANGED <<mem, retries, res, redelivered, preview, up, cleaned, dup, images, conn, clock>>

\* upgrade_related_devices: the loop is over and upgrade() returns
BatchUpgradeOperation_done ==
    /\ batch.pc = "related"
    /\ batch.todo = {}
    /\ ~batch.firmwareless
    /\ batch' = [batch EXCEPT !.pc = "done"]
    /\ UNCHANGED <<status, log, opDevice, opImage, opBatch, pc, mem, retries,
                   res, overlap, redelivered, preview, up, cleaned, dup, images, opOptions, df, conn, clock>>

\* the only image of the build
OnlyImage(b) == CHOOSE i \in firmwareimage_set(b) : TRUE

\* upgrade_firmwareless_devices: the firmwareless devices are queried for the
\* boards of the image of the build
upgrade_firmwareless_query ==
    /\ batch.pc = "related"
    /\ batch.todo = {}
    /\ batch.firmwareless
    /\ batch' = [batch EXCEPT
                    !.pc = "firmwareless",
                    !.todo = _find_firmwareless_devices(
                                 batch.build, boards(OnlyImage(batch.build)))]
    /\ UNCHANGED <<status, log, opDevice, opImage, opBatch, pc, mem, retries,
                   res, overlap, redelivered, preview, up, cleaned, dup, images, opOptions, df, conn, clock>>

\* upgrade_firmwareless_devices: one turn of the loop, newest device first;
\* a ValidationError of full_clean (clean, or the device has a
\* DeviceFirmware by now) ends the task
upgrade_firmwareless_devices ==
    /\ batch.pc = "firmwareless"
    /\ batch.todo # {}
    /\ LET d == Newest(batch.todo)
           image == OnlyImage(batch.build)
       IN IF df[d] = NoFirmware /\ clean(d, image)
          THEN /\ NextOp # 0
               /\ df' = [df EXCEPT ![d] = [image |-> image, installed |-> FALSE]]
               /\ create_upgrade_operation(NextOp, d, image, TRUE, batch.upgrade_options)
               /\ batch' = [batch EXCEPT !.todo = @ \ {d}]
          ELSE /\ batch' = [batch EXCEPT !.pc = "raised"]
               /\ UNCHANGED <<status, log, opDevice, opImage, opBatch, pc,
                              overlap, df, opOptions>>
    /\ UNCHANGED <<mem, retries, res, redelivered, preview, up, cleaned, dup, images, conn, clock>>

\* upgrade_firmwareless_devices: the loop is over and upgrade() returns
upgrade_firmwareless_done ==
    /\ batch.pc = "firmwareless"
    /\ batch.todo = {}
    /\ batch' = [batch EXCEPT !.pc = "done"]
    /\ UNCHANGED <<status, log, opDevice, opImage, opBatch, pc, mem, retries,
                   res, overlap, redelivered, preview, up, cleaned, dup, images, opOptions, df, conn, clock>>

\* a dry run that lists every device without DeviceFirmware
MutantDryRunAnyDevice(b) ==
    /\ preview' = [build |-> b,
                   device_firmwares |-> _find_related_device_firmwares(b),
                   devices |-> {d \in Devices : df[d] = NoFirmware}]
    /\ UNCHANGED <<status, log, opDevice, opImage, opBatch, pc, mem, retries,
                   res, overlap, redelivered, df, conn, clock, batch, up, cleaned, dup, images, opOptions>>

\* BatchUpgradeOperation.dry_run: the two querysets, of the related device
\* firmwares and of the firmwareless devices for the boards of all the
\* images of the build
dry_run(b) ==
    /\ preview' = [build |-> b,
                   device_firmwares |-> _find_related_device_firmwares(b),
                   devices |-> _find_firmwareless_devices(
                                   b, UNION {boards(i) : i \in firmwareimage_set(b)})]
    /\ UNCHANGED <<status, log, opDevice, opImage, opBatch, pc, mem, retries,
                   res, overlap, redelivered, df, conn, clock, batch, up, cleaned, dup, images, opOptions>>

\* UpgradeOptionsMixin.clean: full_clean() of an operation with the upgrade
\* options validates them
UpgradeOptionsMixin_clean ==
    /\ cleaned.error = "not validated"
    /\ cleaned' = [cleaned EXCEPT !.error = validate_upgrade_options(cleaned.upgrade_options)]
    /\ UNCHANGED <<status, log, opDevice, opImage, opBatch, pc, mem, retries,
                   res, overlap, redelivered, df, conn, clock, batch, preview, up,
                   dup, images, opOptions>>

\* ---------------------------------------------------------- upgrader

\* one step of OpenWrt.upgrade(image) for the operation o: the lines it logs
\* (log_line saves the operation) and what becomes of the run
Upgrader(o, lines, run) ==
    LET m1 == [mem[o] EXCEPT !.log = log_lines(@, lines)]
    IN /\ up.op = o
       /\ save(o, m1)
       /\ mem' = [mem EXCEPT ![o] = m1]
       /\ up' = run
       /\ UNCHANGED <<opDevice, opImage, opBatch, pc, retries, res, overlap,
                      redelivered, df, conn, clock, preview, cleaned, dup, images, opOptions>>

\* the run goes on with the method at, after the command call
Proceeds(call, at) == [up EXCEPT !.calls = Append(@, call), !.pc = at]

\* the run ends: upgrade(image) returns (kind "ok") or raises
Ends(run, kind, cause) ==
    [run EXCEPT !.pc = "ended", !.outcome = [kind |-> kind, cause |-> cause]]

\* OpenWrt.upgrade and _test_connection: the Upgrader made for the operation
\* connects to the device
OpenWrt_upgrade(o, connected) ==
    LET run == [up EXCEPT !.op = o, !.calls = <<"connect">>, !.memory = "",
                          !.i = 0, !.attempt = 0,
                          !.outcome = [kind |-> "none", cause |-> ""]]
        m1 == [mem[o] EXCEPT !.log =
                 log_line(@, "Connection successful, starting upgrade...")]
    IN /\ pc[o] = "upgrader"
       /\ up.pc \in {"none", "returned"}
       /\ IF connected
          THEN /\ save(o, m1)
               /\ mem' = [mem EXCEPT ![o] = m1]
               /\ up' = [run EXCEPT !.pc = "uuid"]
          ELSE /\ up' = Ends(run, "RecoverableFailure", "Connection failed")
               /\ UNCHANGED <<status, log, batch, mem>>
       /\ UNCHANGED <<opDevice, opImage, opBatch, pc, retries, res, overlap,
                      redelivered, df, conn, clock, preview, cleaned, dup, images, opOptions>>

\* OpenWrt._verify_device_uuid: the uuid of the device's configuration is
\* read and compared with the device of the operation
_verify_device_uuid(o, found) ==
    /\ up.pc = "uuid"
    /\ CASE found = "not found" ->
              Upgrader(o, <<"Could not read device UUID from configuration">>,
                       Ends(Proceeds("uci get openwisp.http.uuid", "ended"),
                            "UpgradeAborted", ""))
         [] found = "mismatch" ->
              Upgrader(o, <<"Device UUID mismatch: expected \"" \o ToString(opDevice[o])
                            \o "\", found \"93e76d30\" in device configuration">>,
                       Ends(Proceeds("uci get openwisp.http.uuid", "ended"),
                            "UpgradeAborted", ""))
         [] found = "match" ->
              Upgrader(o, <<"Device identity verified successfully">>,
                       Proceeds("uci get openwisp.http.uuid", "checksum"))

\* OpenWrt._test_checksum: the checksum file of the device is compared with
\* the checksum of the image
_test_checksum(o) ==
    /\ up.pc = "checksum"
    /\ IF up.marker = 0
       THEN Upgrader(o, <<"Image checksum file not found, proceeding">>,
                     Proceeds("test -f checksum", "memory"))
       ELSE IF up.marker = Checksum(opImage[o])
       THEN Upgrader(o, <<"Image checksum file found",
                          "Firmware already upgraded previously. Identical checksum found in the filesystem, upgrade not needed.">>,
                     Ends([Proceeds("test -f checksum", "ended")
                             EXCEPT !.calls = Append(@, "cat checksum")],
                          "UpgradeNotNeeded", ""))
       ELSE Upgrader(o, <<"Image checksum file found",
                          "Checksum different, proceeding">>,
                     [Proceeds("test -f checksum", "memory")
                        EXCEPT !.calls = Append(@, "cat checksum")])

\* with enough memory the image is tested before it is uploaded
MutantTestsBeforeUpload(o, enough) ==
    /\ up.pc = "memory"
    /\ IF enough
       THEN Upgrader(o, <<>>, [Proceeds("meminfo", "test") EXCEPT !.memory = "enough"])
       ELSE Upgrader(o, <<"The image size (0 MiB) is greater than the available memory on the system (0 MiB).">>,
                     [Proceeds("meminfo", "stop") EXCEPT !.i = 1])

\* OpenWrt.check_memory: the caches are dropped and the available memory is
\* compared with the size of the image
check_memory(o, enough) ==
    /\ up.pc = "memory"
    /\ IF enough
       THEN Upgrader(o, <<>>, [Proceeds("meminfo", "upload") EXCEPT !.memory = "enough"])
       ELSE Upgrader(o, <<"The image size (0 MiB) is greater than the available memory on the system (0 MiB).">>,
                     [Proceeds("meminfo", "stop") EXCEPT !.i = 1])

\* OpenWrt._stop_non_critical_services: one turn of the loop
_stop_non_critical_services(o) ==
    LET service == _UNNECESSARY_SERVICES[up.i]
        last == up.i = Len(_UNNECESSARY_SERVICES)
    IN /\ up.pc = "stop"
       /\ Upgrader(o, <<>>,
            [Proceeds("stop " \o service, IF last THEN "again" ELSE "stop")
               EXCEPT !.i = IF last THEN 0 ELSE @ + 1,
                      !.stopped = IF \E k \in 1..Len(@) : @[k] = service
                                  THEN @ ELSE Append(@, service)])

\* OpenWrt.check_memory: the memory is measured again after the services
\* were stopped
check_memory_again(o, enough) ==
    /\ up.pc = "again"
    /\ IF enough
       THEN Upgrader(o, <<"Enough available memory was freed up on the system (65.41 MiB)!">>,
                     [Proceeds("meminfo", "upload") EXCEPT !.memory = "freed"])
       ELSE Upgrader(o, <<"There is still not enough available memory on the system (0 MiB).",
                          "Starting non critical services again...">>,
                     [Proceeds("meminfo", "start") EXCEPT !.memory = "short", !.i = 1])

\* OpenWrt._start_non_critical_services: one turn of the loop; after the
\* last one UpgradeAborted is raised
_start_non_critical_services(o) ==
    LET service == _UNNECESSARY_SERVICES[up.i]
        last == up.i = Len(_UNNECESSARY_SERVICES)
        run == [Proceeds("start " \o service, IF last THEN "ended" ELSE "start")
                  EXCEPT !.i = IF last THEN 0 ELSE @ + 1,
                         !.stopped = SelectSeq(@, LAMBDA x : x # service)]
    IN /\ up.pc = "start"
       /\ IF last
          THEN Upgrader(o, IF up.memory = "short"
                           THEN <<"Non critical services started, aborting upgrade.">>
                           ELSE <<>>,
                        Ends(run, "UpgradeAborted", ""))
          ELSE Upgrader(o, <<>>, run)

\* OpenWrt.upload: the image file is copied to the device; any error is a
\* recoverable failure
upload(o, ok) ==
    /\ up.pc = "upload"
    /\ IF ok
       THEN Upgrader(o, <<>>, Proceeds("putfo", "test"))
       ELSE Upgrader(o, <<>>, Ends(Proceeds("putfo", "ended"),
                                   "RecoverableFailure", "Invalid packet blocking"))

\* an image test that raises UpgradeAborted at once when it fails
MutantAbortsWithoutRestart(o, ok) ==
    /\ up.pc = "test"
    /\ IF ok
       THEN Upgrader(o, <<"Sysupgrade test passed successfully, proceeding with the upgrade operation...">>,
                     Proceeds("sysupgrade --test", "reflash"))
       ELSE Upgrader(o, <<"Invalid image type">>,
                     Ends(Proceeds("sysupgrade --test", "ended"), "UpgradeAborted", ""))

\* OpenWrt._test_image: sysupgrade --test of the uploaded file; on failure
\* the services that were stopped are started and UpgradeAborted is raised
_test_image(o, ok) ==
    /\ up.pc = "test"
    /\ IF ok
       THEN Upgrader(o, <<"Sysupgrade test passed successfully, proceeding with the upgrade operation...">>,
                     Proceeds("sysupgrade --test", "reflash"))
       ELSE IF up.stopped # <<>>
       THEN Upgrader(o, <<"Invalid image type", "Starting non critical services again...">>,
                     [Proceeds("sysupgrade --test", "start") EXCEPT !.i = 1])
       ELSE Upgrader(o, <<"Invalid image type">>,
                     Ends(Proceeds("sysupgrade --test", "ended"), "UpgradeAborted", ""))

\* OpenWrt._reflash: the reflash command runs in a subprocess, which puts
\* its exception in the failure queue; _reflash raises what the queue holds
_reflash(o, ok) ==
    /\ up.pc = "reflash"
    /\ IF ok
       THEN Upgrader(o, <<"Upgrade operation in progress...",
                          "SSH connection closed, will wait 0 seconds before attempting to reconnect...">>,
                     [Proceeds("sysupgrade", "reconnect")
                        EXCEPT !.attempt = 1, !.stopped = <<>>])
       ELSE Upgrader(o, <<"Upgrade operation in progress...">>,
                     Ends(Proceeds("sysupgrade", "ended"), "Exception",
                          "Invalid image type"))

\* the loop gives up one attempt later
MutantOneMoreAttempt(o, moved, reachable) ==
    LET addresses == IF moved \/ \E k \in 1..Len(up.calls) :
                                     up.calls[k] = "get_addresses " \o Addresses[2]
                     THEN Addresses[2] ELSE Addresses[1]
        trying == "Trying to reconnect to device at " \o addresses
                    \o " (attempt n." \o ToString(up.attempt) \o ")..."
        tried == [Proceeds("get_addresses " \o addresses, "reconnect")
                    EXCEPT !.calls = Append(@, "connect")]
    IN /\ up.pc = "reconnect"
       /\ IF reachable
          THEN Upgrader(o, <<trying, "Connected! Writing checksum file",
                             "Upgrade completed successfully.">>,
                        Ends([tried EXCEPT !.calls = Append(@, "echo checksum"),
                                           !.marker = Checksum(opImage[o])],
                             "ok", ""))
          ELSE IF up.attempt <= RECONNECT_MAX_RETRIES
          THEN Upgrader(o, <<trying, "Device not reachable yet, retrying in 0 seconds...">>,
                        [tried EXCEPT !.attempt = @ + 1])
          ELSE Upgrader(o, <<trying, "Device not reachable yet, retrying in 0 seconds...">>,
                        Ends(tried, "ReconnectionFailed",
                             "Giving up, device not reachable anymore after upgrade"))

\* OpenWrt._write_checksum: one turn of the loop over the attempts, the
\* addresses read again first; after the last attempt ReconnectionFailed
_write_checksum(o, moved, reachable) ==
    LET addresses == IF moved \/ \E k \in 1..Len(up.calls) :
                                     up.calls[k] = "get_addresses " \o Addresses[2]
                     THEN Addresses[2] ELSE Addresses[1]
        trying == "Trying to reconnect to device at " \o addresses
                    \o " (attempt n." \o ToString(up.attempt) \o ")..."
        tried == [Proceeds("get_addresses " \o addresses, "reconnect")
                    EXCEPT !.calls = Append(@, "connect")]
    IN /\ up.pc = "reconnect"
       /\ IF reachable
          THEN Upgrader(o, <<trying, "Connected! Writing checksum file",
                             "Upgrade completed successfully.">>,
                        Ends([tried EXCEPT !.calls = Append(@, "echo checksum"),
                                           !.marker = Checksum(opImage[o])],
                             "ok", ""))
          ELSE IF up.attempt < RECONNECT_MAX_RETRIES
          THEN Upgrader(o, <<trying, "Device not reachable yet, retrying in 0 seconds...">>,
                        [tried EXCEPT !.attempt = @ + 1])
          ELSE Upgrader(o, <<trying, "Device not reachable yet, retrying in 0 seconds...">>,
                        Ends(tried, "ReconnectionFailed",
                             "Giving up, device not reachable anymore after upgrade"))

\* upgrade(): upgrader.upgrade(image) ends as the run ended
upgrade_upgrader(o) ==
    /\ up.pc = "ended"
    /\ up.op = o
    /\ upgrade_except(o, up.outcome)
    /\ up' = [up EXCEPT !.pc = "returned"]

\* ------------------------------------------------------- specification

Next ==
    \/ \E d \in Devices, i \in Images : set_image(d, i)
    \/ \E d \in Devices, i \in Images : create_for_device(d, i)
    \/ \E o \in OpIds, c \in ConnectionOutcomes : upgrade_connect(o, c)
    \/ \E o \in OpIds, s \in BOOLEAN : upgrade_check(o, s)
    \/ \E o \in OpIds : upgrade_abort(o)
    \/ \E o \in OpIds, out \in UpgraderOutcomes : upgrade_run(o, out)
    \/ \E b \in Builds, f \in BOOLEAN : batch_upgrade(b, f, EmptyOptions)
    \/ BatchUpgradeOperation_upgrade
    \/ upgrade_related_devices
    \/ BatchUpgradeOperation_done
    \/ upgrade_firmwareless_query
    \/ upgrade_firmwareless_devices
    \/ upgrade_firmwareless_done

\* every task is delivered once, and again for each retry
Spec == Init /\ [][Next]_vars

\* a finished task may be delivered again (operations outside a batch)
NextAtLeastOnce ==
    \/ \E d \in Devices, i \in Images : set_image(d, i)
    \/ \E d \in Devices, i \in Images : create_for_device(d, i)
    \/ \E o \in OpIds, c \in ConnectionOutcomes : upgrade_connect(o, c)
    \/ \E o \in OpIds, s \in BOOLEAN : upgrade_check(o, s)
    \/ \E o \in OpIds : upgrade_abort(o)
    \/ \E o \in OpIds, out \in UpgraderOutcomes : upgrade_run(o, out)
    \/ \E o \in OpIds : redeliver(o)

SpecAtLeastOnce == Init /\ [][NextAtLeastOnce]_vars

\* a task may be delivered again while its first execution is running: two
\* executions of the same operation, each with its own instance
NextConcurrent ==
    \/ \E i \in Images : set_image(1, i)
    \/ \E o \in OpIds, c \in ConnectionOutcomes : upgrade_connect(o, c)
    \/ \E o \in OpIds, s \in BOOLEAN : upgrade_check(o, s)
    \/ \E o \in OpIds : upgrade_abort(o)
    \/ \E o \in OpIds, out \in UpgraderOutcomes : upgrade_run(o, out)
    \/ \E o \in OpIds : duplicate(o)
    \/ \E o \in OpIds : switch(o)

SpecConcurrent == Init /\ [][NextConcurrent]_vars

\* upgrader.upgrade(self.image.file) of an operation whose image is null
NoFile == [kind |-> "Exception",
           cause |-> "'NoneType' object has no attribute 'file'"]

\* firmware images are deleted while the operations of device 1 run
NextDelete ==
    \/ \E i \in Images : set_image(1, i)
    \/ \E i \in Images : delete_image(i)
    \/ \E o \in OpIds, c \in ConnectionOutcomes : upgrade_connect(o, c)
    \/ \E o \in OpIds, s \in BOOLEAN : upgrade_check(o, s)
    \/ \E o \in OpIds : upgrade_abort(o)
    \/ \E o \in OpIds, out \in UpgraderOutcomes \cup {NoFile} :
          /\ opImage[o] = 0 <=> out = NoFile
          /\ upgrade_run(o, out)

SpecDelete == Init /\ [][NextDelete]_vars

\* a recoverable failure that persists: every connection attempt that
\* works is followed by a RecoverableFailure of the Upgrader
PersistentFailure == CHOOSE out \in UpgraderOutcomes : out.kind = "RecoverableFailure"

\* one step of the task of o under a persistent recoverable failure
ExecutePersistentFailure(o) ==
    \/ \E c \in {"working", "not-working"} : upgrade_connect(o, c)
    \/ upgrade_check(o, TRUE)
    \/ upgrade_abort(o)
    \/ upgrade_run(o, PersistentFailure)

NextPersistentFailure ==
    \/ \E d \in Devices, i \in Images : set_image(d, i)
    \/ \E o \in OpIds : ExecutePersistentFailure(o)

\* the task facility runs every submitted task, and every blocking call of
\* upgrade() ends
SpecPersistentFailure ==
    /\ Init
    /\ [][NextPersistentFailure]_vars
    /\ \A o \in OpIds : WF_vars(ExecutePersistentFailure(o))

\* one step of the task that executes the operation o
Execute(o) ==
    \/ \E c \in ConnectionOutcomes : upgrade_connect(o, c)
    \/ \E sup \in BOOLEAN : upgrade_check(o, sup)
    \/ upgrade_abort(o)
    \/ \E out \in UpgraderOutcomes : upgrade_run(o, out)

\* one step of the task that executes the batch
BatchTask ==
    \/ BatchUpgradeOperation_upgrade
    \/ upgrade_related_devices
    \/ BatchUpgradeOperation_done
    \/ upgrade_firmwareless_query
    \/ upgrade_firmwareless_devices
    \/ upgrade_firmwareless_done

\* the task facility runs every submitted task, and every blocking call of
\* a task ends
SpecFair ==
    /\ Init
    /\ [][Next]_vars
    /\ \A o \in OpIds : WF_vars(Execute(o))
    /\ WF_vars(BatchTask)

\* the upgrade options a batch is requested with: none, -c, and -n with -c
BatchOptions ==
    { EmptyOptions,
      [EmptyOptions EXCEPT !["c"] = "True"],
      [EmptyOptions EXCEPT !["n"] = "True", !["c"] = "True"] }

\* batch upgrades and dry runs of any build of the catalogue, from any
\* registration of the devices' firmware
NextBatch ==
    \/ \E b \in AllBuilds : dry_run(b)
    \/ \E b \in AllBuilds, f \in BOOLEAN, options \in BatchOptions :
          batch_upgrade(b, f, options)
    \/ BatchUpgradeOperation_upgrade
    \/ upgrade_related_devices
    \/ BatchUpgradeOperation_done
    \/ upgrade_firmwareless_query
    \/ upgrade_firmwareless_devices
    \/ upgrade_firmwareless_done

SpecBatch == InitDevices /\ [][NextBatch]_vars

\* an operation is made with any upgrade options and validated
InitOptions ==
    /\ NothingRequested
    /\ up = NoRun
    /\ df = [d \in Devices |-> NoFirmware]
    /\ cleaned \in [upgrade_options : OptionSets, error : {"not validated"}]

SpecOptions == InitOptions /\ [][UpgradeOptionsMixin_clean]_vars

\* device 1 was bound to image 2, which made operation 1; its checksum file
\* holds the checksum of any image or does not exist
InitUpgrader ==
    /\ status = [o \in OpIds |-> IF o = 1 THEN "in-progress" ELSE "none"]
    /\ log = [o \in OpIds |-> <<>>]
    /\ opDevice = [o \in OpIds |-> IF o = 1 THEN 1 ELSE 0]
    /\ opImage = [o \in OpIds |-> IF o = 1 THEN 2 ELSE 0]
    /\ opBatch = [o \in OpIds |-> FALSE]
    /\ pc = [o \in OpIds |-> IF o = 1 THEN "queued" ELSE "none"]
    /\ mem = [o \in OpIds |-> [status |-> "none", log |-> <<>>]]
    /\ retries = [o \in OpIds |-> 0]
    /\ res = [o \in OpIds |-> NoResult]
    /\ overlap = [o \in OpIds |-> {}]
    /\ redelivered = 0
    /\ df = [d \in Devices |-> IF d = 1 THEN [image |-> 2, installed |-> FALSE]
                                 ELSE NoFirmware]
    /\ conn = [d \in Devices |->
                 [is_working |-> TRUE, failure_reason |-> "", last_attempt |-> 0]]
    /\ clock = 1
    /\ batch = [status |-> "none", build |-> 0, pc |-> "none", todo |-> {},
                updates |-> 0, firmwareless |-> FALSE,
                upgrade_options |-> EmptyOptions]
    /\ preview = NoPreview
    /\ dup = NoDup
    /\ images = AllImages
    /\ opOptions = [o \in OpIds |-> EmptyOptions]
    /\ cleaned = NoOptions
    /\ up \in {NoRunWith(marker) : marker \in {0} \cup {Checksum(i) : i \in Images}}

\* the task of the operation, delivered once, again for each retry, and
\* once more after it finished; upgrade() with the steps of the Upgrader
NextUpgrader ==
    \/ \E o \in OpIds, c \in ConnectionOutcomes : upgrade_connect(o, c)
    \/ \E o \in OpIds, s \in BOOLEAN : upgrade_check(o, s)
    \/ \E o \in OpIds, connected \in BOOLEAN : OpenWrt_upgrade(o, connected)
    \/ \E o \in OpIds, found \in {"match", "mismatch", "not found"} :
          _verify_device_uuid(o, found)
    \/ \E o \in OpIds : _test_checksum(o)
    \/ \E o \in OpIds, enough \in BOOLEAN : check_memory(o, enough)
    \/ \E o \in OpIds : _stop_non_critical_services(o)
    \/ \E o \in OpIds, enough \in BOOLEAN : check_memory_again(o, enough)
    \/ \E o \in OpIds : _start_non_critical_services(o)
    \/ \E o \in OpIds, ok \in BOOLEAN : upload(o, ok)
    \/ \E o \in OpIds, ok \in BOOLEAN : _test_image(o, ok)
    \/ \E o \in OpIds, ok \in BOOLEAN : _reflash(o, ok)
    \/ \E o \in OpIds, moved \in BOOLEAN, reachable \in BOOLEAN :
          _write_checksum(o, moved, reachable)
    \/ \E o \in OpIds : upgrade_upgrader(o)
    \/ \E o \in OpIds : redeliver(o)

SpecUpgrader == InitUpgrader /\ [][NextUpgrader]_vars

\* the loop of _write_checksum runs on once it is entered
SpecUpgraderFair ==
    /\ InitUpgrader
    /\ [][NextUpgrader]_vars
    /\ WF_vars(\E o \in OpIds, moved \in BOOLEAN, reachable \in BOOLEAN :
                  _write_checksum(o, moved, reachable))

\* ---------------------------------------------------------------- claims

DeviceOps(d) == {o \in OpIds : opDevice[o] = d}
InProgress(d) == {o \in DeviceOps(d) : status[o] = "in-progress"}

\* the step in which the execution of o leaves the Upgrader with an outcome
\* of the given kind
UpgraderEnds(o, kind) ==
    /\ pc[o] = "upgrader"
    /\ pc'[o] # "upgrader"
    /\ res'[o].kind = kind

\* the execution of o is over and its Upgrader ended with the given kind
UpgraderEnded(o, kind) ==
    /\ pc[o] = "done"
    /\ res[o].kind = kind

CauseOf(kind) == (CHOOSE out \in UpgraderOutcomes : out.kind = kind).cause

\* C1 (as stated): in every reachable state every device has at most one
\* UpgradeOperation whose status is in-progress, operations that have not
\* started executing included.
C1_AtMostOneInProgress ==
    \A d \in Devices : Cardinality(InProgress(d)) <= 1

\* C1 (amended): in every reachable state every device has at most one
\* UpgradeOperation that is in progress and past its conflict check, that
\* is, executing the Upgrader.
C1_AtMostOneUpgrading ==
    \A d \in Devices :
        Cardinality({o \in InProgress(d) : pc[o] = "upgrader"}) <= 1

\* C1 witness: two operations of a device are in progress by status, one of
\* them executing the Upgrader and the other one still before its check.
C1_Witness ==
    \E d \in Devices : \E o, p \in InProgress(d) :
        /\ o # p
        /\ pc[o] = "upgrader"
        /\ pc[p] \in {"queued", "check", "abort"}

\* C2: of two operations of a device that begin upgrade() together, it never
\* happens that both proceed to the Upgrader or that both are aborted by
\* the conflict check.
C2_ExactlyOneProceeds ==
    \A d \in Devices : \A o, p \in DeviceOps(d) :
        (o # p /\ DeviceOps(d) = {o, p}) =>
            /\ ~(pc[o] = "upgrader" /\ pc[p] = "upgrader")
            /\ ~(res[o].kind = "conflict" /\ res[p].kind = "conflict")

\* the last execution of o got a working connection and so came to the
\* conflict check
CameToCheck(o) == res[o].kind \notin {"none", "no-objects", "not-working"}

\* C3: when an operation p is created for a device while an operation o of
\* that device is not complete, and both get a working connection, then
\* once both are terminal exactly one of them has a terminal status other
\* than aborted.
C3_ExactlyOneNotAborted ==
    \A p \in OpIds : \A o \in overlap[p] :
        (/\ status[o] \in Terminal /\ CameToCheck(o)
         /\ status[p] \in Terminal /\ CameToCheck(p)) =>
            Cardinality({x \in {o, p} : status[x] # "aborted"}) = 1

\* the status the batch should have for the statuses of its children
Rollup ==
    IF \E o \in Children : status[o] = "in-progress" THEN "in-progress"
    ELSE IF \E o \in Children : status[o] = "failed" THEN "failed"
    ELSE "success"

\* C4: in every reachable state after BatchUpgradeOperation.upgrade() was
\* called (and has returned), the batch is in-progress iff a child is
\* in-progress, otherwise failed iff a child is failed, otherwise success.
C4_BatchStatusIsRollup ==
    batch.pc = "done" => batch.status = Rollup

\* C5: once the status of an UpgradeOperation is terminal, no later step
\* changes it.
C5_TerminalIsFinal ==
    [][\A o \in OpIds : status[o] \in Terminal => status'[o] = status[o]]_vars

\* C6: when the Upgrader raises ReconnectionFailed, the operation ends
\* failed, the DeviceFirmware is marked installed, and the connection is
\* not working, with a failure reason and a last attempt later than the
\* start of the upgrade.
C6_ReconnectionFailed ==
    [][\A o \in OpIds : UpgraderEnds(o, "ReconnectionFailed") =>
          /\ pc'[o] = "done"
          /\ status'[o] = "failed"
          /\ df'[opDevice[o]].installed
          /\ conn'[opDevice[o]].is_working = FALSE
          /\ conn'[opDevice[o]].failure_reason # ""
          /\ conn'[opDevice[o]].last_attempt > res[o].start]_vars

C6_Witness ==
    \E o \in OpIds :
        /\ UpgraderEnded(o, "ReconnectionFailed")
        /\ status[o] = "failed"
        /\ df[opDevice[o]].installed
        /\ ~conn[opDevice[o]].is_working
        /\ conn[opDevice[o]].last_attempt > res[o].start

\* C7 (as stated): when the Upgrader raises any other error, the operation
\* ends failed, the error text is appended to the log and the
\* DeviceFirmware is marked installed.
C7_OtherErrorInstalled ==
    [][\A o \in OpIds : UpgraderEnds(o, "Exception") =>
          /\ status'[o] = "failed"
          /\ log'[o] = log_line(log[o], CauseOf("Exception"))
          /\ df'[opDevice[o]].installed]_vars

\* C7 (amended): when the Upgrader raises any other error, the operation
\* ends failed, the error text is appended to the log and the
\* DeviceFirmware is left as it was: it is not marked installed.
C7_OtherErrorNotInstalled ==
    [][\A o \in OpIds : UpgraderEnds(o, "Exception") =>
          /\ pc'[o] = "done"
          /\ status'[o] = "failed"
          /\ log'[o] = log_line(log[o], CauseOf("Exception"))
          /\ df' = df]_vars

C7_Witness ==
    \E o \in OpIds :
        /\ UpgraderEnded(o, "Exception")
        /\ status[o] = "failed"
        /\ log[o] # <<>>
        /\ log[o][Len(log[o])] = CauseOf("Exception")
        /\ ~df[opDevice[o]].installed

\* C8: when the Upgrader raises RecoverableFailure and recoverable is true,
\* the log gets the two "will be retried" lines, the status stays
\* in-progress, the DeviceFirmware is untouched and the error is raised
\* again; when recoverable is false, the status becomes failed, the error
\* is not raised again and the DeviceFirmware is untouched.
C8_RecoverableFailure ==
    [][\A o \in OpIds : UpgraderEnds(o, "RecoverableFailure") =>
          /\ df' = df
          /\ IF res[o].recoverable
             THEN /\ log'[o] = log[o] \o
                        << "Detected a recoverable failure: "
                             \o CauseOf("RecoverableFailure") \o ".\n",
                           "The upgrade operation will be retried soon." >>
                  /\ status[o] = "in-progress"
                  /\ status'[o] = "in-progress"
                  /\ res'[o].raised
             ELSE /\ status'[o] = "failed"
                  /\ pc'[o] = "done"
                  /\ ~res'[o].raised]_vars

\* C8 witness: an operation failed for good by a recoverable failure of the
\* Upgrader after an earlier one was handed back for a retry.
C8_Witness ==
    \E o \in OpIds :
        /\ UpgraderEnded(o, "RecoverableFailure")
        /\ ~res[o].raised
        /\ status[o] = "failed"
        /\ retries[o] > 0
        /\ \E k \in 1..Len(log[o]) :
              log[o][k] = "Detected a recoverable failure: "
                            \o CauseOf("RecoverableFailure") \o ".\n"
        /\ ~df[opDevice[o]].installed

\* C9: when the Upgrader raises UpgradeNotNeeded, the operation ends
\* success and the DeviceFirmware is marked installed.
C9_UpgradeNotNeeded ==
    [][\A o \in OpIds : UpgraderEnds(o, "UpgradeNotNeeded") =>
          /\ pc'[o] = "done"
          /\ status'[o] = "success"
          /\ df'[opDevice[o]].installed]_vars

C9_Witness ==
    \E o \in OpIds :
        /\ UpgraderEnded(o, "UpgradeNotNeeded")
        /\ status[o] = "success"
        /\ df[opDevice[o]].installed

\* C10: when the Upgrader raises UpgradeAborted, the operation ends
\* aborted, and DeviceFirmware.installed and the connection record stay as
\* they were: not installed, and flagged working.
C10_UpgradeAborted ==
    [][\A o \in OpIds : UpgraderEnds(o, "UpgradeAborted") =>
          /\ pc'[o] = "done"
          /\ status'[o] = "aborted"
          /\ df' = df
          /\ conn' = conn]_vars

C10_Witness ==
    \E o \in OpIds :
        /\ UpgraderEnded(o, "UpgradeAborted")
        /\ status[o] = "aborted"
        /\ ~df[opDevice[o]].installed
        /\ conn[opDevice[o]].is_working

\* C11: when upgrade(image) of the Upgrader returns without raising, the
\* operation ends success and the DeviceFirmware of the device is marked
\* installed.
C11_UpgraderReturns ==
    [][\A o \in OpIds : UpgraderEnds(o, "ok") =>
          /\ pc'[o] = "done"
          /\ status'[o] = "success"
          /\ ~res'[o].raised
          /\ df'[opDevice[o]].installed]_vars

C11_Witness ==
    \E o \in OpIds :
        /\ UpgraderEnded(o, "ok")
        /\ status[o] = "success"
        /\ df[opDevice[o]].installed
        /\ df[opDevice[o]].image = opImage[o]

\* the step in which an execution of o finds connections but none working
ConnectFails(o) ==
    /\ pc[o] = "queued"
    /\ res'[o].kind = "not-working"
    /\ (pc'[o] # pc[o] \/ retries'[o] # retries[o])

ConnectionLine(k, reason) ==
    "Failed to connect with device using credentials " \o ToString(k)
        \o ". Error: " \o reason

ConnectionErrorText ==
    "Failed to establish connection with the device, tried all DeviceConnections"

\* C12: when the device has connections but none works, upgrade() appends
\* one log line for each connection of the device, with its credentials and
\* failure reason, and then handles a recoverable failure: recoverable
\* leaves the status in-progress and raises the error again, not
\* recoverable sets the status failed; the Upgrader is not reached and the
\* DeviceFirmware is untouched.
C12_NoWorkingConnection ==
    [][\A o \in OpIds : ConnectFails(o) =>
          LET d == opDevice[o]
              n == Len(log[o])
              c == ConnectionCount(d)
          IN /\ Len(log'[o]) = n + c + (IF res'[o].recoverable THEN 2 ELSE 1)
             /\ \A k \in 1..n : log'[o][k] = log[o][k]
             /\ \A k \in 1..c :
                   log'[o][n + k] = ConnectionLine(k, conn'[d].failure_reason)
             /\ pc'[o] \in {"queued", "done"}
             /\ df' = df
             /\ IF res'[o].recoverable
                THEN /\ status[o] = "in-progress"
                     /\ status'[o] = "in-progress"
                     /\ res'[o].raised
                     /\ log'[o][n + c + 1] = "Detected a recoverable failure: "
                                                \o ConnectionErrorText \o ".\n"
                ELSE /\ status'[o] = "failed"
                     /\ ~res'[o].raised
                     /\ log'[o][n + c + 1] = "Max retries exceeded. Upgrade failed: "
                                                \o ConnectionErrorText \o "."]_vars

\* C12 witness: a device with two connections, none working, on the first
\* execution and on its retry; the operation is failed and nothing was
\* installed.
C12_Witness ==
    \E o \in OpIds :
        /\ pc[o] = "done"
        /\ res[o].kind = "not-working"
        /\ ConnectionCount(opDevice[o]) = 2
        /\ retries[o] > 0
        /\ status[o] = "failed"
        /\ Len(log[o]) = 7
        /\ ~df[opDevice[o]].installed

\* C13: upgrade() returns with the status still in-progress, without
\* reaching the Upgrader and without a change of DeviceFirmware or of the
\* connection record, (a) when the provider reports that the device has no
\* connection object and (b) when no upgrader class applies to the
\* connection.
C13_ReturnsInProgress ==
    [][\A o \in OpIds :
          ( \/ pc[o] = "queued" /\ pc'[o] # "queued" /\ res'[o].kind = "no-objects"
            \/ pc[o] = "check" /\ pc'[o] # "check" /\ res'[o].kind = "no-upgrader" ) =>
             /\ pc'[o] = "done"
             /\ ~res'[o].raised
             /\ status[o] = "in-progress"
             /\ status'[o] = "in-progress"
             /\ df' = df
             /\ conn' = conn
             /\ batch' = batch]_vars

\* C13 witness: both cases have happened, and both operations are still
\* in-progress after upgrade() returned.
C13_Witness ==
    \E o, p \in OpIds :
        /\ pc[o] = "done" /\ res[o].kind = "no-objects"
        /\ log[o] = <<"No device connection available">>
        /\ status[o] = "in-progress"
        /\ pc[p] = "done" /\ res[p].kind = "no-upgrader"
        /\ log[p] = <<>>
        /\ status[p] = "in-progress"

\* the step in which an execution of upgrade() for o ends, by a return or
\* by an exception that escapes
ExecutionEnds(o) ==
    /\ pc[o] \in {"queued", "check", "abort", "upgrader"}
    /\ \/ pc'[o] = "done"
       \/ pc'[o] = "queued" /\ retries'[o] # retries[o]

C15_RetriesThenFails ==
    /\ [](\A o \in OpIds : retries[o] <= MaxRetries)
    /\ [](\A o \in OpIds : status[o] = "failed" =>
              /\ pc[o] = "done"
              /\ retries[o] = MaxRetries
              /\ ~res[o].recoverable)
    /\ [][\A o \in OpIds : retries'[o] # retries[o] =>
              /\ retries'[o] = retries[o] + 1
              /\ res'[o].recoverable
              /\ pc'[o] = "queued"
              /\ status'[o] = "in-progress"]_vars
    /\ [][\A o \in OpIds : status[o] = "failed" =>
              pc'[o] = "done" /\ status'[o] = "failed"]_vars
    /\ \A o \in OpIds :
          status[o] = "in-progress" ~> status[o] \in {"failed", "aborted"}

\* C15 witness: an operation failed by the Upgrader's recoverable failure
\* on the last of its R + 1 executions.
C15_Witness ==
    \E o \in OpIds :
        /\ status[o] = "failed"
        /\ retries[o] = MaxRetries
        /\ res[o].kind = "RecoverableFailure"
        /\ Len(log[o]) = 2 * MaxRetries + 1

\* the step in which update() of the batch runs
UpdateRuns == batch'.updates # batch.updates

\* C16: whenever update() runs while no child operation is in-progress,
\* the batch is afterwards failed if a child is failed and success
\* otherwise; children that are all aborted give success.
C16_UpdateRollsUp ==
    [][(UpdateRuns /\ \A c \in Children : status'[c] # "in-progress") =>
          batch'.status = IF \E c \in Children : status'[c] = "failed"
                          THEN "failed" ELSE "success"]_vars

\* C16 witness: update() ran for a batch of two children, both aborted, and
\* the batch is success.
C16_Witness ==
    /\ batch.updates > 0
    /\ Cardinality(Children) = 2
    /\ \A c \in Children : status[c] = "aborted"
    /\ batch.status = "success"

\* C17: update() that runs while a child operation is in-progress changes
\* neither the status of the batch nor any child.
C17_UpdateNoOp ==
    [][\A o \in OpIds :
          (/\ UpdateRuns /\ ExecutionEnds(o)
           /\ \E c \in Children : status'[c] = "in-progress") =>
             /\ batch'.status = batch.status
             /\ \A c \in Children \ {o} :
                   status'[c] = status[c] /\ log'[c] = log[c]]_vars

\* C17 witness: update() ran for a failed child while the other child was
\* in-progress, and the batch is still in-progress.
C17_Witness ==
    /\ batch.updates > 0
    /\ batch.status = "in-progress"
    /\ \E o, c \in Children : status[o] = "failed" /\ status[c] = "in-progress"

\* the step in which upgrade() saves the operation o for the last time
Saves(o) == ExecutionEnds(o) /\ res'[o].kind # "no-upgrader"

\* C18: a save of an operation runs update() of the batch exactly when the
\* operation belongs to a batch and its status is not in-progress, and
\* update() runs in no other step.
C18_SaveTriggersUpdate ==
    [][/\ \A o \in OpIds : Saves(o) =>
             IF opBatch[o] /\ status'[o] # "in-progress"
             THEN batch'.updates = batch.updates + 1
             ELSE batch' = batch
       /\ UpdateRuns => \E o \in OpIds : Saves(o) /\ opBatch[o]]_vars

\* C18 witness: update() ran once, for the child that is complete, and not
\* for the complete operation outside the batch.
C18_Witness ==
    /\ batch.updates = 1
    /\ \E o \in Children : status[o] \in Terminal
    /\ \E o \in OpIds : opDevice[o] # 0 /\ ~opBatch[o] /\ status[o] \in Terminal

\* C19: after BatchUpgradeOperation.upgrade() was called, if from some
\* point on no child operation is in-progress (a batch without children
\* included), the batch eventually is success or failed.
C19_BatchCompletes ==
    (<>[](/\ batch.pc = "done"
          /\ \A c \in Children : status[c] # "in-progress"))
        => <>(batch.status \in {"success", "failed"})

\* the step creates exactly one operation: for device d and image i, in
\* progress, outside a batch, its task submitted
Created(d, i) ==
    \E o \in OpIds :
        /\ opDevice[o] = 0 /\ opDevice'[o] = d
        /\ opImage'[o] = i
        /\ status'[o] = "in-progress"
        /\ ~opBatch'[o]
        /\ pc'[o] = "queued"
        /\ \A p \in OpIds \ {o} : opDevice'[p] = opDevice[p] /\ status'[p] = status[p]

NothingCreated == opDevice' = opDevice /\ status' = status /\ pc' = pc

InCategory(b) ==
    {d \in Devices : /\ df[d] # NoFirmware
                      /\ Category(ImageBuild(df[d].image)) = Category(b)}

\* the devices whose DeviceFirmware points to an image of b
OnBuild(b) ==
    {d \in Devices : df[d] # NoFirmware /\ ImageBuild(df[d].image) = b}

\* the step creates one operation of the batch, for device d
ChildCreated(d) ==
    \E o \in OpIds : /\ opDevice[o] = 0 /\ opDevice'[o] = d
                     /\ opBatch'[o]
                     /\ status'[o] = "in-progress"

\* C21 as stated: the related devices a batch upgrade of build B acts on
\* are exactly the devices whose DeviceFirmware image is of B's category and
\* is not an image of B; a device already on an image of B is never selected.
C21_RelatedNotOnBuild ==
    [][BatchUpgradeOperation_upgrade
         => batch'.todo = InCategory(batch.build) \ OnBuild(batch.build)]_vars

\* C21, amended: the related devices a batch upgrade of build B selects are
\* exactly the devices whose DeviceFirmware image is of B's category, except
\* those on an image of B that is installed; a device on an image of B that
\* is not installed is selected, and the batch creates its operation.
C21_RelatedNotInstalledOnBuild ==
    /\ [][BatchUpgradeOperation_upgrade
            => batch'.todo = InCategory(batch.build) \
                               {d \in OnBuild(batch.build) : df[d].installed}]_vars
    /\ [][\A d \in Devices :
              (/\ upgrade_related_devices
               /\ d = Newest(batch.todo)
               /\ d \in OnBuild(batch.build)) => ChildCreated(d)]_vars

\* C21 witness: the batch selected a device that is on an image of its
\* build, not installed, and not the device whose image is of the other
\* category.
C21_Witness ==
    /\ batch.pc = "related"
    /\ \E d \in batch.todo : d \in OnBuild(batch.build) /\ ~df[d].installed
    /\ \E d \in Devices \ batch.todo :
          /\ df[d] # NoFirmware
          /\ Category(ImageBuild(df[d].image)) # Category(batch.build)

\* the boards of the images of build b
BuildBoards(b) == UNION {boards(i) : i \in firmwareimage_set(b)}

\* device d is compatible with an image of build b, and of the organization
\* of the category of b when it has one
Upgradable(d, b) ==
    /\ DeviceModel(d) \in BuildBoards(b)
    /\ CategoryOrganization(Category(b)) \in {0, DeviceOrganization(d)}

\* C22: BatchUpgradeOperation.upgrade(firmwareless) gives a device without
\* DeviceFirmware a DeviceFirmware and an operation only when firmwareless
\* is true, and only a device whose model is in the boards of an image of
\* the build and, when the category of the build belongs to an organization,
\* whose organization is that one; every device the firmwareless query
\* returns gets them; with firmwareless false no such device is touched.
C22_FirmwarelessOnlyOnRequest ==
    /\ [][\A d \in Devices :
              (df[d] = NoFirmware /\ df'[d] # df[d])
                  => /\ batch.firmwareless
                     /\ Upgradable(d, batch.build)
                     /\ df'[d].image \in firmwareimage_set(batch.build)
                     /\ ~df'[d].installed
                     /\ ChildCreated(d)]_vars
    /\ [][upgrade_firmwareless_devices => ChildCreated(Newest(batch.todo))]_vars

\* C22 witness: a firmwareless batch of a build whose category belongs to
\* an organization is over; the device the dry run listed has its operation
\* and the device of another organization still has no DeviceFirmware.
C22_Witness ==
    /\ batch.firmwareless
    /\ batch.pc = "done"
    /\ CategoryOrganization(Category(batch.build)) # 0
    /\ preview.build = batch.build
    /\ \E o \in Children : opDevice[o] \in preview.devices
    /\ \E d \in Devices : df[d] = NoFirmware /\ ~Upgradable(d, batch.build)

\* C23: dry_run(build) is read-only: it creates no batch and no operation
\* and changes no DeviceFirmware; the two sets it returns are the related
\* device firmwares and the firmwareless devices that a batch upgrade of
\* that build selects in the same state.
C23_DryRunPreviews ==
    /\ [][preview' # preview
            => UNCHANGED <<status, log, opDevice, opImage, opBatch, pc, mem,
                           df, conn, batch>>]_vars
    /\ [][(BatchUpgradeOperation_upgrade /\ preview.build = batch.build)
            => batch'.todo = preview.device_firmwares]_vars
    /\ [][(upgrade_firmwareless_query /\ preview.build = batch.build)
            => batch'.todo = preview.devices]_vars

\* C23 witness: after a dry run of its build, the batch went through the
\* related device firmwares the dry run listed and is about to go through
\* the firmwareless devices it listed.
C23_Witness ==
    /\ preview.build = batch.build
    /\ batch.pc = "firmwareless"
    /\ preview.devices # {}
    /\ batch.todo = preview.devices
    /\ preview.device_firmwares # {}
    /\ \A d \in preview.device_firmwares : \E o \in Children : opDevice[o] = d

\* the flags that are true in the options
TrueFlags(options) == {k \in Keys : options[k] = "True"}

\* C24: the validation of upgrade options fails for every set of options
\* in which n is true together with c or with o, and the error names such a
\* pair; it fails for every set with an unrecognised flag; it succeeds for
\* the empty set and for every other set of recognised flags.
C24_OptionsValidated ==
    cleaned.error # "not validated" =>
        LET options == cleaned.upgrade_options
            flags == TrueFlags(options)
        IN /\ options = EmptyOptions => cleaned.error = ""
           /\ (\E k \in Keys \ SCHEMA : options[k] # "unset")
                 => cleaned.error = InvalidOptions
           /\ (\A k \in Keys \ SCHEMA : options[k] = "unset")
                 => /\ {"n", "c"} \subseteq flags \/ {"n", "o"} \subseteq flags
                         => \E x \in {"c", "o"} :
                               /\ {"n", x} \subseteq flags
                               /\ cleaned.error = Together("n", x)
                    /\ ~({"n", "c"} \subseteq flags \/ {"n", "o"} \subseteq flags)
                         => cleaned.error = ""

\* C24 witness: options with n and o true, and c false, were refused with
\* the message that names "-n" and "-o".
C24_Witness ==
    /\ TrueFlags(cleaned.upgrade_options) = {"n", "o", "F"}
    /\ cleaned.upgrade_options["c"] = "False"
    /\ cleaned.error = "The \"-n\" and \"-o\" options cannot be used together"

\* the run of the Upgrader made the call
Called(call) == \E k \in 1..Len(up.calls) : up.calls[k] = call

\* the run of the Upgrader is over
RunOver == up.pc \in {"ended", "returned"}

\* the run found the checksum of the image in the checksum file
SameChecksum ==
    /\ up.marker = Checksum(opImage[up.op])
    /\ ~Called("echo checksum")

\* the line is in the log of the operation
Logged(o, line) == \E k \in 1..Len(log[o]) : log[o][k] = line

\* C25 as stated: whenever the Upgrader is invoked (and connects) with an
\* image whose checksum equals the checksum marker of the device, it stops
\* after the checksum probe and the operation ends success through the
\* upgrade-not-needed path.
C25_AlwaysNotNeeded ==
    (RunOver /\ Called("uci get openwisp.http.uuid") /\ SameChecksum)
        => up.outcome.kind = "UpgradeNotNeeded"

\* C25, amended: whenever the Upgrader is invoked with an image whose
\* checksum equals the checksum marker of the device and the verification of
\* the device's identity, which comes first, passes, the run stops after
\* the checksum probe (no memory check, transfer, image test, reflash or
\* reconnection) and the operation ends success, its DeviceFirmware
\* installed, through UpgradeNotNeeded; a second invocation after a
\* successful upgrade included.
C25_NotNeededAfterIdentity ==
    /\ []((RunOver /\ Called("test -f checksum") /\ SameChecksum)
            => /\ up.outcome.kind = "UpgradeNotNeeded"
               /\ up.calls = <<"connect", "uci get openwisp.http.uuid",
                               "test -f checksum", "cat checksum">>)
    /\ [][\A o \in OpIds :
            (upgrade_upgrader(o) /\ up.outcome.kind = "UpgradeNotNeeded")
                => /\ status'[o] = "success"
                   /\ df'[opDevice[o]].installed
                   /\ pc'[o] = "done"]_vars

\* C25 witness: the operation flashed the device and wrote the checksum; its
\* task was delivered again, and this second run ended with upgrade not
\* needed after the probe.
C25_Witness ==
    /\ redelivered = 1
    /\ up.pc = "returned"
    /\ up.outcome.kind = "UpgradeNotNeeded"
    /\ Len(up.calls) = 4
    /\ status[1] = "success"
    /\ Logged(1, "Upgrade completed successfully.")
    /\ df[1].installed

\* the calls that stop, and that start, every service, in the order of the
\* list
StopCalls == [k \in 1..Len(_UNNECESSARY_SERVICES) |-> "stop " \o _UNNECESSARY_SERVICES[k]]
StartCalls == [k \in 1..Len(_UNNECESSARY_SERVICES) |-> "start " \o _UNNECESSARY_SERVICES[k]]

\* the calls of a run up to the memory check, with and without a checksum
\* file on the device
ProbeCalls ==
    { <<"connect", "uci get openwisp.http.uuid", "test -f checksum">>,
      <<"connect", "uci get openwisp.http.uuid", "test -f checksum", "cat checksum">> }

\* C26: if the available memory is smaller than the image and still is
\* after the services were stopped and the caches dropped, every service
\* that was stopped is started again, in the order in which they were
\* stopped, before the Upgrader returns; nothing is uploaded or reflashed,
\* the operation ends aborted and its DeviceFirmware is left as it was.
C26_MemoryShortRestarts ==
    /\ []((RunOver /\ up.memory = "short")
            => /\ up.outcome.kind = "UpgradeAborted"
               /\ \E probe \in ProbeCalls :
                     up.calls = probe \o <<"meminfo">> \o StopCalls
                                      \o <<"meminfo">> \o StartCalls
               /\ up.stopped = <<>>)
    /\ [][\A o \in OpIds :
            (upgrade_upgrader(o) /\ up.memory = "short")
                => /\ status'[o] = "aborted"
                   /\ pc'[o] = "done"
                   /\ df' = df]_vars

\* C26 witness: the memory was short twice, the services were stopped and
\* started again, and the operation is aborted, its DeviceFirmware not
\* installed.
C26_Witness ==
    /\ up.pc = "returned"
    /\ up.memory = "short"
    /\ Called("stop uhttpd") /\ Called("start wifi")
    /\ up.stopped = <<>>
    /\ status[up.op] = "aborted"
    /\ ~df[opDevice[up.op]].installed
    /\ Logged(up.op, "Non critical services started, aborting upgrade.")

\* the run went through every step at once: a checksum file with another
\* checksum, enough memory, the upload, the image test, the reflash, and
\* the device reached at the first attempt
StraightRun ==
    /\ RunOver
    /\ Len(up.calls) >= 10
    /\ \E a \in {Addresses[1], Addresses[2]} :
          SubSeq(up.calls, 1, 10) =
              <<"connect", "uci get openwisp.http.uuid", "test -f checksum",
                "cat checksum", "meminfo", "putfo", "sysupgrade --test",
                "sysupgrade", "get_addresses " \o a, "connect">>
    /\ up.attempt = 1
    /\ up.outcome.kind # "ReconnectionFailed"

\* C27: for a device whose checksum marker differs from the checksum of the
\* image, with enough memory, a successful transfer, image test and reflash
\* and a reconnection at the first attempt, the run ends with the checksum
\* of the image in the marker, the operation success and its DeviceFirmware
\* installed.
C27_StraightRunSucceeds ==
    /\ [](StraightRun
            => /\ up.outcome.kind = "ok"
               /\ up.marker = Checksum(opImage[up.op])
               /\ Len(up.calls) = 11 /\ up.calls[11] = "echo checksum")
    /\ [][\A o \in OpIds :
            (upgrade_upgrader(o) /\ StraightRun)
                => /\ status'[o] = "success"
                   /\ pc'[o] = "done"
                   /\ df'[opDevice[o]] = [image |-> opImage[o], installed |-> TRUE]
                   /\ conn' = conn]_vars

\* C27 witness: the checksum file held the checksum of image 1; the first
\* run of the operation for image 2 went straight through, the marker is
\* the checksum of image 2, the operation is success and installed.
C27_Witness ==
    /\ StraightRun
    /\ up.pc = "returned"
    /\ retries[1] = 0 /\ redelivered = 0
    /\ up.marker = Checksum(2)
    /\ status[1] = "success"
    /\ df[1] = [image |-> 2, installed |-> TRUE]
    /\ Logged(1, "Checksum different, proceeding")
    /\ Logged(1, "Trying to reconnect to device at 127.0.0.1 (attempt n.1)...")

\* the reflash command failed and its exception came through the queue
ReflashFailed == Called("sysupgrade") /\ up.outcome.kind = "Exception"

\* C28: a failure of the reflash command reported through the failure queue
\* makes the operation failed in that same attempt: it is not handed back
\* for a retry even when recoverable is true, the reconnection loop is not
\* entered and the DeviceFirmware is not marked installed.
C28_ReflashFailureIsFinal ==
    /\ []((RunOver /\ ReflashFailed)
            => /\ up.attempt = 0
               /\ up.calls[Len(up.calls)] = "sysupgrade"
               /\ up.marker # Checksum(opImage[up.op]))
    /\ [][\A o \in OpIds :
            (upgrade_upgrader(o) /\ ReflashFailed)
                => /\ status'[o] = "failed"
                   /\ pc'[o] = "done"
                   /\ retries' = retries
                   /\ log'[o][Len(log'[o])] = up.outcome.cause
                   /\ df' = df
                   /\ conn' = conn]_vars

\* C28 witness: in its first attempt, with retries left, the reflash of the
\* operation failed; the operation is failed, was not retried, and its
\* DeviceFirmware is not installed.
C28_Witness ==
    /\ up.pc = "returned"
    /\ ReflashFailed
    /\ res[up.op].recoverable
    /\ retries[up.op] = 0
    /\ pc[up.op] = "done"
    /\ status[up.op] = "failed"
    /\ ~df[opDevice[up.op]].installed
    /\ ~Logged(up.op, "Trying to reconnect to device at 127.0.0.1 (attempt n.1)...")

\* the connections attempted since the reflash
Reconnections == Cardinality({k \in 2..Len(up.calls) : up.calls[k] = "connect"})

\* the addresses read for the attempt that is being made
ReadAddresses == {"get_addresses " \o Addresses[k] : k \in 1..Len(Addresses)}

\* what _write_checksum logs for attempt n at the addresses a
Trying(a, n) ==
    "Trying to reconnect to device at " \o a \o " (attempt n." \o ToString(n) \o ")..."

\* one turn of the reconnection loop
Reconnect == \E o \in OpIds, moved \in BOOLEAN, reachable \in BOOLEAN :
                 _write_checksum(o, moved, reachable)

\* C29: the reconnection loop after the reflash terminates: it makes at most
\* RECONNECT_MAX_RETRIES (10) attempts, numbered from 1 in the log, reads the
\* addresses of the device again before each attempt, and ends with a
\* reconnection followed by the checksum write or, after the last failed
\* attempt, with ReconnectionFailed.
C29_ReconnectLoopTerminates ==
    /\ RECONNECT_MAX_RETRIES = 10
    /\ [](up.pc = "reconnect"
            => /\ up.attempt \in 1..RECONNECT_MAX_RETRIES
               /\ up.attempt = Reconnections + 1)
    /\ [](Reconnections <= RECONNECT_MAX_RETRIES)
    /\ [][Reconnect =>
            LET n == Len(up.calls)
                a == up'.calls[n + 1]
            IN /\ a \in ReadAddresses
               /\ up'.calls[n + 2] = "connect"
               /\ SubSeq(up'.calls, 1, n) = up.calls
               /\ \E k \in 1..Len(Addresses) :
                     /\ a = "get_addresses " \o Addresses[k]
                     /\ Trying(Addresses[k], up.attempt) \in
                            {mem'[up.op].log[j] :
                                j \in (Len(mem[up.op].log) + 1)..Len(mem'[up.op].log)}
               /\ \/ /\ up'.pc = "reconnect"
                     /\ up'.attempt = up.attempt + 1
                     /\ Len(up'.calls) = n + 2
                  \/ /\ up'.pc = "ended"
                     /\ up'.outcome.kind = "ok"
                     /\ up'.calls = Append(SubSeq(up'.calls, 1, n + 2), "echo checksum")
                  \/ /\ up'.pc = "ended"
                     /\ up'.outcome.kind = "ReconnectionFailed"
                     /\ up.attempt = RECONNECT_MAX_RETRIES
                     /\ Len(up'.calls) = n + 2]_vars
    /\ (up.pc = "reconnect") ~> (up.pc = "ended")

\* C29 witness: the loop gave up after exactly RECONNECT_MAX_RETRIES attempts,
\* the addresses read before each, the device found at another address on
\* the way.
C29_Witness ==
    /\ up.pc = "ended"
    /\ up.outcome.kind = "ReconnectionFailed"
    /\ Reconnections = RECONNECT_MAX_RETRIES
    /\ up.calls[Len(up.calls) - 1] = "get_addresses " \o Addresses[2]
    /\ \E k \in 1..Len(up.calls) : up.calls[k] = "get_addresses " \o Addresses[1]

\* the run ended at the verification of the device's identity
UuidRefused ==
    /\ up.outcome.kind = "UpgradeAborted"
    /\ up.calls[Len(up.calls)] = "uci get openwisp.http.uuid"

\* what _verify_device_uuid logs when it refuses the device d
UuidLines(d) ==
    { "Could not read device UUID from configuration",
      "Device UUID mismatch: expected \"" \o ToString(d)
          \o "\", found \"93e76d30\" in device configuration" }

\* C30: when the uuid of the device cannot be read or differs from the
\* device of the operation, the operation ends aborted, the image is not
\* uploaded, the reflash command is not invoked, DeviceFirmware.installed
\* stays as it was (false) and the connection stays flagged working.
C30_IdentityRefusedAborts ==
    /\ [][\A o \in OpIds, found \in {"mismatch", "not found"} :
            _verify_device_uuid(o, found)
                => /\ up'.pc = "ended"
                   /\ up'.outcome.kind = "UpgradeAborted"
                   /\ up'.calls = <<"connect", "uci get openwisp.http.uuid">>
                   /\ mem'[o].log[Len(mem'[o].log)] \in UuidLines(opDevice[o])]_vars
    /\ []((RunOver /\ UuidRefused)
            => /\ ~Called("putfo")
               /\ ~Called("sysupgrade")
               /\ up.pc = "ended" => conn[opDevice[up.op]].is_working)
    /\ [][\A o \in OpIds :
            (upgrade_upgrader(o) /\ UuidRefused)
                => /\ status'[o] = "aborted"
                   /\ pc'[o] = "done"
                   /\ df' = df
                   /\ conn' = conn
                   /\ conn'[opDevice[o]].is_working]_vars

\* C30 witness: the first run of the operation was refused at the identity
\* of the device; the operation is aborted, nothing was uploaded, the
\* DeviceFirmware is not installed and the connection is working.
C30_Witness ==
    /\ up.pc = "returned"
    /\ UuidRefused
    /\ redelivered = 0
    /\ status[up.op] = "aborted"
    /\ \E l \in UuidLines(opDevice[up.op]) : Logged(up.op, l)
    /\ ~Called("putfo")
    /\ ~df[opDevice[up.op]].installed
    /\ conn[opDevice[up.op]].is_working

\* a sequence is the beginning of another
IsPrefix(s, t) == Len(s) <= Len(t) /\ SubSeq(t, 1, Len(s)) = s

RECURSIVE Text(_)
\* the text of a log: its lines joined by newlines
Text(l) ==
    IF l = <<>> THEN ""
    ELSE IF Len(l) = 1 THEN l[1]
    ELSE Text(SubSeq(l, 1, Len(l) - 1)) \o "\n" \o l[Len(l)]

\* lines that upgrade() logs
SomeLines == {"No device connection available", "Invalid image type"}

\* C31: the persisted log of an UpgradeOperation is append-only over any
\* step, executions delivered again or running in parallel included: each
\* new value has the previous one as a prefix; and log_line(line) extends
\* the log by exactly the line, after a newline unless the log was empty.
C31_LogAppendOnly ==
    /\ [][\A o \in OpIds : IsPrefix(log[o], log'[o])]_vars
    /\ [](\A o \in OpIds, line \in SomeLines :
            /\ IsPrefix(log[o], log_line(log[o], line))
            /\ Text(log_line(log[o], line)) =
                 IF Text(log[o]) = "" THEN line
                 ELSE Text(log[o]) \o "\n" \o line)

\* C32: an UpgradeOperation becomes aborted only at the conflict check,
\* which found another operation of the device in progress, or when the
\* Upgrader raised UpgradeAborted; no other step and no request sets aborted.
C32_AbortedOnlyByDecision ==
    [][\A o \in OpIds :
          (status'[o] = "aborted" /\ status[o] # "aborted")
              => \/ /\ upgrade_abort(o)
                    /\ res'[o].kind = "conflict"
                    /\ \E p \in OpIds \ {o} : opDevice[p] = opDevice[o]
                 \/ /\ \E out \in UpgraderOutcomes :
                          out.kind = "UpgradeAborted" /\ upgrade_run(o, out)
                    /\ res'[o].kind = "UpgradeAborted"]_vars

\* C32 witness: one operation was aborted by the Upgrader and the other of
\* the same device by the conflict check.
C32_Witness ==
    \E o, p \in OpIds :
        /\ status[o] = "aborted" /\ res[o].kind = "UpgradeAborted"
        /\ status[p] = "aborted" /\ res[p].kind = "conflict"
        /\ opDevice[o] = opDevice[p]

\* the UpgradeOperation rows that exist
Operations == {o \in OpIds : status[o] # "none"}

\* C33: deleting a firmware image deletes no UpgradeOperation that targets
\* it: the row is kept, its image becomes null, its status and its log are
\* unchanged (and no operation refers to an image that does not exist).
C33_OperationKeptOnImageDelete ==
    /\ [][\A i \in Images :
            delete_image(i)
                => \A o \in Operations :
                      /\ status'[o] = status[o]
                      /\ log'[o] = log[o]
                      /\ opDevice'[o] = opDevice[o]
                      /\ opImage'[o] = IF opImage[o] = i THEN 0 ELSE opImage[o]]_vars
    /\ [](\A o \in Operations : opImage[o] \in images \cup {0})

\* C33 witness: the image of an operation that is in progress and of one
\* that logged its end was deleted; both are kept, without image.
C33_Witness ==
    \E o, p \in Operations :
        /\ opImage[o] = 0 /\ status[o] = "in-progress"
        /\ opImage[p] = 0 /\ status[p] = "failed" /\ log[p] # <<>>
        /\ res[p].kind # "Exception"

\* the step creates exactly one operation: o, of the batch, for device d and
\* image i, with the upgrade options of the batch
OnlyChild(o, d, i) ==
    /\ status[o] = "none"
    /\ status'[o] = "in-progress"
    /\ opDevice'[o] = d
    /\ opImage'[o] = i
    /\ opBatch'[o]
    /\ opOptions'[o] = batch.upgrade_options
    /\ \A p \in OpIds \ {o} :
          /\ status'[p] = status[p]
          /\ opDevice'[p] = opDevice[p]
          /\ opImage'[p] = opImage[p]
          /\ opBatch'[p] = opBatch[p]
          /\ opOptions'[p] = opOptions[p]

\* C34: BatchUpgradeOperation.upgrade() visits every selected device; when
\* the build has an image of the type of the device's image, the
\* DeviceFirmware is re-pointed to it and exactly one operation is created,
\* of this batch and with the upgrade options of the batch; when the build
\* has none, the device is left unchanged and gets no operation.
C34_RelatedDevicesUpgraded ==
    /\ [][upgrade_related_devices =>
            LET d == Newest(batch.todo)
                image == BuildImage(batch.build, ImageType(df[d].image))
            IN /\ batch'.todo = batch.todo \ {d}
               /\ \A e \in Devices \ {d} : df'[e] = df[e]
               /\ IF image # 0
                  THEN /\ df'[d].image = image
                       /\ ImageBuild(image) = batch.build
                       /\ \E o \in OpIds : OnlyChild(o, d, image)
                  ELSE /\ df'[d] = df[d]
                       /\ status' = status
                       /\ opDevice' = opDevice]_vars
    /\ [][BatchUpgradeOperation_done \/ upgrade_firmwareless_query
            => batch.todo = {}]_vars
    /\ [](\A o, p \in Children :
            /\ opOptions[o] = batch.upgrade_options
            /\ (o # p => opDevice[o] # opDevice[p]))

\* C34 witness: a batch with the option -c is over; it re-pointed both
\* devices, each from another build, and each has its one operation with
\* that option.
C34_Witness ==
    /\ batch.pc = "done"
    /\ ~batch.firmwareless
    /\ batch.upgrade_options["c"] = "True"
    /\ \A d \in Devices :
          /\ ImageBuild(df[d].image) = batch.build
          /\ \E o \in Children : /\ opDevice[o] = d
                                 /\ opImage[o] = df[d].image
                                 /\ opOptions[o]["c"] = "True"

\* the build of the batch has no image of the type of the images of the
\* devices it selected: the batch is over and no operation was created
C34_SkippedReached ==
    /\ batch.pc = "done"
    /\ batch.build = 4
    /\ Children = {}
    /\ \E d \in Devices : df[d] # NoFirmware /\ Category(ImageBuild(df[d].image)) = 1

\* the position of the first call of a command in the run (0: not called)
First(call) ==
    IF Called(call)
    THEN CHOOSE k \in 1..Len(up.calls) :
            up.calls[k] = call /\ \A j \in 1..(k - 1) : up.calls[j] # call
    ELSE 0

\* the commands of the sequence were called in its order: one that was
\* called comes after a call of the one before it
InOrder(order) ==
    \A k \in 2..Len(order) :
        Called(order[k]) => (Called(order[k - 1]) /\ First(order[k - 1]) < First(order[k]))

\* the run ended with UpgradeAborted after the given command
AbortedAt(call) ==
    /\ RunOver
    /\ up.outcome.kind = "UpgradeAborted"
    /\ Called(call)
    /\ \A k \in (First(call) + 1)..Len(up.calls) :
          \E x \in 1..Len(_UNNECESSARY_SERVICES) :
              up.calls[k] = "start " \o _UNNECESSARY_SERVICES[x]

\* the run ended with UpgradeAborted at the memory check
MemoryShort ==
    /\ RunOver
    /\ up.outcome.kind = "UpgradeAborted"
    /\ up.memory = "short"

\* the number of uploads of the run
Uploads == Cardinality({k \in 1..Len(up.calls) : up.calls[k] = "putfo"})

\* C35 as stated: the Upgrader runs the checksum probe, the identity
\* verification, the image test, the memory check, the upload, the reflash
\* and the reconnection in this order; an upgrade that aborts at the
\* identity verification or at the image test has uploaded nothing.
C35_UploadAfterImageTest ==
    /\ [](InOrder(<<"test -f checksum", "uci get openwisp.http.uuid",
                    "sysupgrade --test", "meminfo", "putfo", "sysupgrade">>))
    /\ [](up.attempt > 0 => Called("sysupgrade"))
    /\ []((AbortedAt("uci get openwisp.http.uuid") \/ AbortedAt("sysupgrade --test"))
            => Uploads = 0)

\* C35, amended: the Upgrader runs the identity verification, the checksum
\* probe, the memory check, the upload, the image test (of the uploaded
\* file), the reflash and the reconnection in this order; an upgrade that
\* aborts at the identity verification or at the memory check has uploaded
\* nothing, one that aborts at the image test has uploaded the image once
\* and has not invoked the reflash command.
C35_TestAfterUpload ==
    /\ [](InOrder(<<"uci get openwisp.http.uuid", "test -f checksum", "meminfo",
                    "putfo", "sysupgrade --test", "sysupgrade">>))
    /\ [](up.attempt > 0 => Called("sysupgrade"))
    /\ []((AbortedAt("uci get openwisp.http.uuid") \/ MemoryShort)
            => Uploads = 0)
    /\ [](AbortedAt("sysupgrade --test")
            => Uploads = 1 /\ ~Called("sysupgrade"))

\* C35 witness: the operation was aborted at the image test, after one
\* upload made with enough memory, and nothing was flashed.
C35_Witness ==
    /\ up.pc = "returned"
    /\ AbortedAt("sysupgrade --test")
    /\ up.memory = "enough"
    /\ Uploads = 1
    /\ First("meminfo") < First("putfo")
    /\ First("putfo") < First("sysupgrade --test")
    /\ status[up.op] = "aborted"
    /\ ~df[opDevice[up.op]].installed

UploadFailed == "Detected a recoverable failure: Invalid packet blocking.\n"

\* the run of the Upgrader that is going on or is over is the retry made
\* after an upload failed
RetryAfterUpload ==
    /\ up.pc \notin {"none", "returned"}
    /\ retries[up.op] > 0
    /\ redelivered = 0
    /\ Logged(up.op, UploadFailed)

\* an upload failure is a recoverable failure; the reflash command is not
\* invoked in that attempt and the DeviceFirmware is left as it is
UploadFailureIsRecoverable ==
    /\ [][\A o \in OpIds :
            upload(o, FALSE)
                => /\ up'.pc = "ended"
                   /\ up'.outcome.kind = "RecoverableFailure"
                   /\ up'.calls[Len(up'.calls)] = "putfo"
                   /\ \A k \in 1..Len(up'.calls) : up'.calls[k] # "sysupgrade"]_vars
    /\ [][\A o \in OpIds :
            (/\ upgrade_upgrader(o)
             /\ up.outcome.kind = "RecoverableFailure"
             /\ up.calls[Len(up.calls)] = "putfo")
                => /\ df' = df
                   /\ IF res[o].recoverable
                      THEN /\ status'[o] = status[o]
                           /\ pc'[o] = "queued"
                           /\ retries'[o] = retries[o] + 1
                      ELSE /\ status'[o] = "failed"
                           /\ pc'[o] = "done"]_vars

\* C36 as stated: an upload failure is a recoverable failure, without
\* reflash and with installed left false, and the retry that follows does
\* not repeat the checksum probe, the identity verification, the image test
\* and the memory check.
C36_RetrySkipsChecks ==
    /\ UploadFailureIsRecoverable
    /\ [](RetryAfterUpload
            => /\ ~Called("test -f checksum")
               /\ ~Called("uci get openwisp.http.uuid")
               /\ ~Called("meminfo"))

\* C36, amended: an upload failure is a recoverable failure, without reflash
\* and with installed left false, and the retry that follows enters
\* upgrade() from the top: it uploads again only after the identity
\* verification, the checksum probe and the memory check were repeated.
C36_RetryRepeatsChecks ==
    /\ UploadFailureIsRecoverable
    /\ [](RetryAfterUpload
            => /\ up.calls[1] = "connect"
               /\ InOrder(<<"uci get openwisp.http.uuid", "test -f checksum",
                            "meminfo", "putfo">>)
               /\ Uploads <= 1)

\* C36 witness: the upload failed twice, in the first attempt and in its
\* retry, which repeated the checks; the operation is failed and not
\* installed.
C36_Witness ==
    /\ up.pc = "ended"
    /\ RetryAfterUpload
    /\ up.outcome = [kind |-> "RecoverableFailure", cause |-> "Invalid packet blocking"]
    /\ Called("uci get openwisp.http.uuid")
    /\ Called("cat checksum")
    /\ Called("meminfo")
    /\ Uploads = 1
    /\ ~res[up.op].recoverable
    /\ ~df[opDevice[up.op]].installed

\* the run stopped the services, which freed enough memory
ServicesStopped == up.memory = "freed"

\* C37: when services were stopped to free memory and the upgrade aborts at
\* the image test, every stopped service is started again, in the order in
\* which they were stopped, before the Upgrader returns; the reflash command
\* is not invoked and the operation ends aborted, its DeviceFirmware left
\* not installed. When the upgrade goes on to a successful reflash, the
\* Upgrader does not start the services.
C37_AbortRestartsServices ==
    /\ []((RunOver /\ ServicesStopped /\ up.outcome.kind = "UpgradeAborted")
            => /\ \E probe \in ProbeCalls :
                     up.calls = probe \o <<"meminfo">> \o StopCalls
                                      \o <<"meminfo", "putfo", "sysupgrade --test">>
                                      \o StartCalls
               /\ up.stopped = <<>>)
    /\ [][\A o \in OpIds :
            (upgrade_upgrader(o) /\ ServicesStopped
                                 /\ up.outcome.kind = "UpgradeAborted")
                => /\ status'[o] = "aborted"
                   /\ pc'[o] = "done"
                   /\ df' = df]_vars
    /\ []((ServicesStopped /\ up.attempt > 0)
            => /\ Called("sysupgrade")
               /\ \A k \in 1..Len(StartCalls) : ~Called(StartCalls[k]))

\* C37 witness: the services were stopped, the image test failed, the
\* services were started again and the operation is aborted, not installed.
C37_Witness ==
    /\ up.pc = "returned"
    /\ ServicesStopped
    /\ up.outcome.kind = "UpgradeAborted"
    /\ Called("stop wifi") /\ Called("putfo") /\ Called("start wifi")
    /\ First("sysupgrade --test") < First("start uhttpd")
    /\ redelivered = 0
    /\ status[up.op] = "aborted"
    /\ ~df[opDevice[up.op]].installed
    /\ Logged(up.op, "Starting non critical services again...")

\* the services were stopped and the device was flashed and reached again:
\* the run is over and no service was started
C37_ReflashedReached ==
    /\ up.pc = "returned"
    /\ ServicesStopped
    /\ up.outcome.kind = "ok"
    /\ Called("stop wifi")
    /\ ~Called("start uhttpd")
    /\ status[up.op] = "success"

\* the outcomes of the Upgrader after which upgrade() marks the
\* DeviceFirmware installed: the image was flashed, or found on the device
Flashed == {"ok", "UpgradeNotNeeded", "ReconnectionFailed"}

\* C38: when an UpgradeOperation marks the DeviceFirmware of its device
\* installed, the DeviceFirmware is bound to the image of the operation; so
\* the DeviceFirmware of a device that has operations is installed only with
\* an image that one of them flashed or found on the device.
C38_InstalledIsTargetImage ==
    /\ [][\A o \in OpIds, out \in UpgraderOutcomes :
            (upgrade_run(o, out) /\ out.kind \in Flashed)
                => /\ df'[opDevice[o]].installed
                   /\ df'[opDevice[o]].image = opImage[o]]_vars
    /\ [](\A d \in Devices :
            (df[d].installed /\ \E o \in OpIds : opDevice[o] = d)
                => \E o \in OpIds : /\ opDevice[o] = d
                                    /\ opImage[o] = df[d].image
                                    /\ res[o].kind \in Flashed)


\* the devices for which the loop of upgrade() that is running still has a
\* child operation to create
StillToCreate ==
    IF batch.pc = "related"
    THEN {d \in batch.todo :
             BuildImage(batch.build, ImageType(df[d].image)) # 0}
    ELSE IF batch.pc = "firmwareless"
    THEN {d \in batch.todo :
             df[d] = NoFirmware /\ clean(d, OnlyImage(batch.build))}
    ELSE {}

\* C39: while BatchUpgradeOperation.upgrade() still has a child operation
\* to create, the batch is in progress, also when a child created earlier
\* has finished already
C39_BatchInProgressWhileCreating ==
    (StillToCreate # {} /\ NextOp # 0) => batch.status = "in-progress"



\* the other operations of the device of o that are in progress
OthersInProgress(o) ==
    {p \in OpIds : /\ p # o
                   /\ opDevice[p] = opDevice[o]
                   /\ status[p] = "in-progress"}

\* C40: the abort of the conflict check only writes the operation's own
\* status and log and ends the execution: the Upgrader is not reached, the
\* DeviceFirmware and the connection of the device are left as they are,
\* and so are the status and the log of every other operation; the check
\* does not count the operation itself, so an operation with no other
\* operation of its device in progress passes it, on a retry as well
C40_ConflictAbortTouchesNothingElse ==
    /\ [][\A o \in OpIds :
            upgrade_abort(o)
                => /\ status'[o] = "aborted"
                   /\ pc'[o] = "done"
                   /\ res'[o].kind = "conflict"
                   /\ retries' = retries
                   /\ up' = up
                   /\ df' = df
                   /\ conn' = conn
                   /\ \A p \in OpIds \ {o} : /\ status'[p] = status[p]
                                             /\ log'[p] = log[p]
                                             /\ pc'[p] = pc[p]]_vars
    /\ [][\A o \in OpIds :
            (pc[o] = "abort" /\ pc'[o] # pc[o]) => upgrade_abort(o)]_vars
    /\ [][\A o \in OpIds, s \in BOOLEAN :
            upgrade_check(o, s)
                => (pc'[o] = "abort" <=> OthersInProgress(o) # {})]_vars

\* an operation was aborted by the conflict check while another operation
\* of its device was in progress, and, in another state, an operation on a
\* retry with no other operation in progress has passed the check
C40_Witness ==
    \E o \in OpIds :
        /\ res[o].kind = "conflict"
        /\ status[o] = "aborted"
        /\ OthersInProgress(o) # {}

C40_RetryPassesReached ==
    \E o \in OpIds :
        /\ retries[o] > 0
        /\ pc[o] = "upgrader"
        /\ status[o] = "in-progress"
        /\ OthersInProgress(o) = {}


====
